---- MODULE Spec2Model ----
(***************************************************************************)
(* A model of gs::basic_german_string (include/german_string.h and the     *)
(* out-of-line _gs_impl_no_alloc members): the 16-byte record, the         *)
(* ownership rules of construction, move, assignment and destruction, and  *)
(* the prefix-accelerated comparison, equality and containment tests.      *)
(***************************************************************************)
EXTENDS Integers, Sequences, FiniteSets, TLC

(***************************************************************************)
(* Machine integers.  std::uint32_t and pointer offsets are kept as a pair *)
(* <<hi, lo>> of 16-bit limbs (value hi * 2^16 + lo), so that the whole    *)
(* 32-bit range and its wrap-around are representable.                     *)
(***************************************************************************)
B16 == 256 * 256

U32(n) == <<n \div B16, n % B16>>

Lt(x, y) == x[1] < y[1] \/ (x[1] = y[1] /\ x[2] < y[2])

Le(x, y) == x = y \/ Lt(x, y)

MinU(x, y) == IF Lt(y, x) THEN y ELSE x

\* x + y without wrap-around (pointer arithmetic, 64 bits wide)
AddN(x, y) == <<x[1] + y[1] + ((x[2] + y[2]) \div B16), (x[2] + y[2]) % B16>>

\* uint32_t subtraction: x - y modulo 2^32
SubU32(x, y) ==
    LET borrow == IF x[2] < y[2] THEN 1 ELSE 0
    IN  <<(x[1] + B16 - (y[1] % B16) - borrow) % B16, (x[2] + B16 - y[2]) % B16>>

\* conversion of a uint32_t to int (two's complement)
ToInt32(x) ==
    IF x[1] < B16 \div 2 THEN x[1] * B16 + x[2] ELSE (x[1] - B16) * B16 + x[2]

\* enum class string_class
temporary == 0
persistent == 1
transient == 2

Classes == {temporary, persistent, transient}

SMALL_STRING_SIZE == 12

\* sizeof(std::uint32_t): the width of the cached prefix
PREFIX_SIZE == 4

(***************************************************************************)
(* Memory.  A buffer is a run of bytes: an explicit head followed by a     *)
(* fill byte repeated up to its length, so that buffers of 2^31 bytes and  *)
(* more are representable.  A pointer is a buffer and a byte offset.       *)
(***************************************************************************)
Ptr(b, o) == [buf |-> b, off |-> o]

NullPtr == Ptr(0, U32(0))

PtrAdd(p, n) == Ptr(p.buf, AddN(p.off, n))

Buffer(h, f, n) == [len |-> n, head |-> h, fill |-> f, live |-> TRUE]

FreeBlock == [len |-> U32(0), head |-> <<>>, fill |-> 0, live |-> FALSE]

ByteAt(m, p) ==
    LET b == m[p.buf]
    IN  IF p.off[1] = 0 /\ p.off[2] < Len(b.head)
        THEN b.head[p.off[2] + 1]
        ELSE b.fill

\* how many bytes from p on are given explicitly (the rest is the fill byte)
ExplicitFrom(m, p) ==
    LET b == m[p.buf]
    IN  IF p.off[1] = 0 /\ p.off[2] < Len(b.head)
        THEN Len(b.head) - p.off[2]
        ELSE 0

Max2(i, j) == IF i < j THEN j ELSE i

\* std::memcmp(p, q, n): the difference of the first differing bytes, read
\* as unsigned char; 0 if the n bytes agree
memcmp(m, p, q, n) ==
    LET w == Max2(ExplicitFrom(m, p), ExplicitFrom(m, q))
        k == IF n[1] = 0 /\ n[2] < w THEN n[2] ELSE w
        D == {i \in 0..(k - 1) :
                ByteAt(m, PtrAdd(p, U32(i))) # ByteAt(m, PtrAdd(q, U32(i)))}
        first == CHOOSE i \in D : \A j \in D : i <= j
    IN  IF D # {}
        THEN ByteAt(m, PtrAdd(p, U32(first))) - ByteAt(m, PtrAdd(q, U32(first)))
        ELSE IF Lt(U32(w), n)
             THEN m[p.buf].fill - m[q.buf].fill
             ELSE 0

\* the n <= 12 bytes at p, as std::memcpy reads them
BytesAt(m, p, n) == SubSeq([i \in 1..n |-> ByteAt(m, PtrAdd(p, U32(i - 1)))], 1, n)

\* the buffer std::memcpy(dst, p, n) fills: n bytes starting at p
CopyOf(m, p, n) ==
    LET e == ExplicitFrom(m, p)
        k == IF n[1] = 0 /\ n[2] < e THEN n[2] ELSE e
    IN  Buffer(BytesAt(m, p, k), m[p.buf].fill, n)

(***************************************************************************)
(* The 16-byte record of _gs_impl_no_alloc.  size is the low half of       *)
(* _state[0]; pre holds bytes 4..7 (the high half of _state[0]: the cached *)
(* prefix, or the first four inline bytes); st1 is _state[1], read either  *)
(* as the last eight inline bytes (k = "raw") or as a tagged pointer       *)
(* (k = "ptr": the 2-bit class tag and the 62-bit address).                *)
(***************************************************************************)
Raw(b) == [k |-> "raw", tag |-> 0, addr |-> NullPtr, b |-> b]

Tagged(t, p) == [k |-> "ptr", tag |-> t, addr |-> p, b |-> <<>>]

Zero8 == <<0, 0, 0, 0, 0, 0, 0, 0>>

\* _gs_impl_no_alloc(): _state[0] = 0, _state[1] = 0
EmptyImpl == [size |-> U32(0), pre |-> <<0, 0, 0, 0>>, st1 |-> Raw(Zero8)]

\* bitwise or of two 2-bit tags
BitOr2(x, y) ==
    (IF (x \div 2) + (y \div 2) > 0 THEN 2 ELSE 0) + (IF (x % 2) + (y % 2) > 0 THEN 1 ELSE 0)

\* mutant of TagBits: the tag is not read, every pointer counts as temporary
TagBitsIgnored(v) == temporary

\* (_state[1] & PTR_TAG_MASK) >> 62
TagBits(v) == IF v.st1.k = "ptr" THEN v.st1.tag ELSE v.st1.b[8] \div 64

_get_size(v) == v.size

\* mutant of _is_small: the inline limit taken as exclusive
_is_small_exclusive(v) == Lt(_get_size(v), U32(SMALL_STRING_SIZE))

_is_small(v) == Le(_get_size(v), U32(SMALL_STRING_SIZE))

\* _state[1] & ~PTR_TAG_MASK
_get_non_small_ptr(v) == v.st1.addr

_get_prefix(v) == v.pre

_get_class(v) == IF _is_small(v) THEN persistent ELSE TagBits(v)

\* mutant of _make_transient: the moved-from value keeps its tag
_make_transient_noop(v) == v

_make_transient(v) ==
    IF v.st1.k = "ptr"
    THEN [v EXCEPT !.st1.tag = BitOr2(v.st1.tag, transient)]
    ELSE [v EXCEPT !.st1.b[8] = (v.st1.b[8] % 64) + 64 * BitOr2(v.st1.b[8] \div 64, transient)]

(***************************************************************************)
(* The records of the two operands of a comparison are themselves memory:  *)
(* _get_small_ptr() points at byte 4 of the record.  ThisBuf and OtherBuf  *)
(* name the twelve bytes behind the size field of *this and of other.      *)
(***************************************************************************)
ThisBuf == 0 - 1

OtherBuf == 0 - 2

\* bytes 4..15 of the record as chars (the pointer bytes of a large value
\* are never read as chars and are left zero here)
RecordBytes(v) == IF v.st1.k = "raw" THEN v.pre \o v.st1.b ELSE v.pre \o Zero8

WithRecords(m, a, b) ==
    [x \in DOMAIN m \cup {ThisBuf, OtherBuf} |->
        IF x = ThisBuf THEN Buffer(RecordBytes(a), 0, U32(12))
        ELSE IF x = OtherBuf THEN Buffer(RecordBytes(b), 0, U32(12))
        ELSE m[x]]

_get_small_ptr(rec) == Ptr(rec, U32(0))

_get_maybe_small_ptr(v, rec) ==
    IF _is_small(v) THEN _get_small_ptr(rec) ELSE _get_non_small_ptr(v)

(***************************************************************************)
(* _gs_impl(str, size, cls, allocator).  blk is the block the allocator    *)
(* hands out for this call, NoBlock if it cannot satisfy the request.      *)
(* The result carries the value, the memory afterwards, the allocate calls *)
(* made and the exception that left the constructor ("no": none).          *)
(***************************************************************************)
NoBlock == 0

\* mutant of Pad12: the bytes after the payload are not zeroed
Pad12Dirty(bs) == SubSeq([i \in 1..12 |-> IF i <= Len(bs) THEN bs[i] ELSE 255], 1, 12)

\* mutant of Pad12: the payload is not copied into the inline bytes
Pad12NotCopied(bs) == SubSeq([i \in 1..12 |-> 0], 1, 12)

\* the twelve inline bytes: zero from _gs_impl_no_alloc() and the 64-bit
\* store _state[0] = size, then the payload copied over them
Pad12(bs) == SubSeq([i \in 1..12 |-> IF i <= Len(bs) THEN bs[i] ELSE 0], 1, 12)

\* mutant of GsImplCtor: the prefix of a value of more than 12 bytes is not
\* filled in
GsImplCtorNoPrefix(m, str, size, cls, blk) ==
    IF _is_small([EmptyImpl EXCEPT !.size = size])
    THEN LET inl == Pad12(BytesAt(m, str, size[2]))
         IN  [thrown |-> "no",
              val |-> [size |-> size, pre |-> SubSeq(inl, 1, 4), st1 |-> Raw(SubSeq(inl, 5, 12))],
              mem |-> m, allocs |-> <<>>]
    ELSE IF cls = temporary /\ blk = NoBlock
    THEN [thrown |-> "bad_alloc", val |-> EmptyImpl, mem |-> m, allocs |-> <<[blk |-> NoBlock, n |-> size]>>]
    ELSE LET m2 == IF cls = temporary THEN [m EXCEPT ![blk] = CopyOf(m, str, size)] ELSE m
             s2 == IF cls = temporary THEN Ptr(blk, U32(0)) ELSE str
         IN  [thrown |-> "no",
              val |-> [size |-> size, pre |-> <<0, 0, 0, 0>>, st1 |-> Tagged(cls, s2)],
              mem |-> m2,
              allocs |-> IF cls = temporary THEN <<[blk |-> blk, n |-> size]>> ELSE <<>>]

GsImplCtor(m, str, size, cls, blk) ==
    IF _is_small([EmptyImpl EXCEPT !.size = size])
    THEN LET inl == Pad12(BytesAt(m, str, size[2]))
         IN  [thrown |-> "no",
              val |-> [size |-> size, pre |-> SubSeq(inl, 1, 4), st1 |-> Raw(SubSeq(inl, 5, 12))],
              mem |-> m, allocs |-> <<>>]
    ELSE IF cls = temporary /\ blk = NoBlock
    THEN [thrown |-> "bad_alloc", val |-> EmptyImpl, mem |-> m, allocs |-> <<[blk |-> NoBlock, n |-> size]>>]
    ELSE LET m2 == IF cls = temporary THEN [m EXCEPT ![blk] = CopyOf(m, str, size)] ELSE m
             s2 == IF cls = temporary THEN Ptr(blk, U32(0)) ELSE str
         IN  [thrown |-> "no",
              val |-> [size |-> size, pre |-> BytesAt(m2, s2, PREFIX_SIZE), st1 |-> Tagged(cls, s2)],
              mem |-> m2,
              allocs |-> IF cls = temporary THEN <<[blk |-> blk, n |-> size]>> ELSE <<>>]

\* mutant of DtorFrees: the destructor never deallocates
DtorFreesNothing(v) == <<>>

\* ~_gs_impl(): the deallocate calls the destructor makes
DtorFrees(v) ==
    IF ~_is_small(v) /\ TagBits(v) = temporary
    THEN <<[ptr |-> _get_non_small_ptr(v), n |-> _get_size(v)]>>
    ELSE <<>>

\* _gs_impl::_substr(start, length, cls), called on v
_substr(m, v, start, length, cls, blk) ==
    LET sum == <<AddN(start, length)[1] % B16, AddN(start, length)[2]>>
        M == WithRecords(m, v, v)
        r == GsImplCtor(M, PtrAdd(_get_maybe_small_ptr(v, ThisBuf), start), length, cls, blk)
    IN  IF Lt(_get_size(v), sum)
        THEN [thrown |-> "out_of_range", val |-> EmptyImpl, mem |-> m, allocs |-> <<>>]
        ELSE [r EXCEPT !.mem = [x \in DOMAIN m |-> r.mem[x]]]

\* mutant of _equals: large values compared by their tagged address
_equals_by_address(m, a, b) ==
    IF a.size # b.size \/ a.pre # b.pre THEN FALSE ELSE a.st1 = b.st1

\* _gs_impl_no_alloc::_equals(other), called on a
_equals(m, a, b) ==
    IF a.size # b.size \/ a.pre # b.pre
    THEN FALSE
    ELSE IF _is_small(a)
    THEN a.st1 = b.st1
    ELSE memcmp(m, _get_non_small_ptr(a), _get_non_small_ptr(b), _get_size(a)) = 0

\* the size tie-break of _compare: (_get_size() - other._get_size()), an
\* unsigned 32-bit difference returned as int
SizeDiff(a, b) == ToInt32(SubU32(_get_size(a), _get_size(b)))

\* mutant of _compare: the payloads are compared from their first byte,
\* the cached prefix is not consulted
_compare_payload_only(m, a, b) ==
    LET M == WithRecords(m, a, b)
        min_size == MinU(_get_size(a), _get_size(b))
        result == memcmp(M, _get_maybe_small_ptr(a, ThisBuf), _get_maybe_small_ptr(b, OtherBuf),
                         min_size)
    IN  IF result # 0 THEN result ELSE SizeDiff(a, b)

\* _gs_impl_no_alloc::_compare(other), called on a
_compare(m, a, b) ==
    LET M == WithRecords(m, a, b)
        min_size == MinU(_get_size(a), _get_size(b))
        min_or_prefix_size == MinU(min_size, U32(PREFIX_SIZE))
        prefix_cmp == memcmp(M, _get_small_ptr(ThisBuf), _get_small_ptr(OtherBuf),
                             min_or_prefix_size)
        result == memcmp(M, PtrAdd(_get_maybe_small_ptr(a, ThisBuf), U32(PREFIX_SIZE)),
                            PtrAdd(_get_maybe_small_ptr(b, OtherBuf), U32(PREFIX_SIZE)),
                            SubU32(min_size, min_or_prefix_size))
    IN  IF min_or_prefix_size = min_size \/ prefix_cmp # 0
        THEN (IF prefix_cmp # 0 THEN prefix_cmp ELSE SizeDiff(a, b))
        ELSE (IF result # 0 THEN result ELSE SizeDiff(a, b))

\* _gs_impl::_starts_with(other), called on a
_starts_with(m, a, b) ==
    IF _get_prefix(a) # _get_prefix(b) \/ Lt(_get_size(a), _get_size(b))
    THEN FALSE
    ELSE _compare(m, _substr(m, a, U32(0), _get_size(b), transient, NoBlock).val, b) = 0

\* mutant of _ends_with: the substring is taken from the front
_ends_with_from_front(m, a, b) ==
    IF Lt(_get_size(a), _get_size(b))
    THEN FALSE
    ELSE _compare(m, _substr(m, a, U32(0), _get_size(b), transient, NoBlock).val, b) = 0

\* _gs_impl::_ends_with(other), called on a
_ends_with(m, a, b) ==
    IF Lt(_get_size(a), _get_size(b))
    THEN FALSE
    ELSE _compare(m, _substr(m, a, SubU32(_get_size(a), _get_size(b)), _get_size(b),
                             transient, NoBlock).val, b) = 0

(***************************************************************************)
(* The program state: the objects of type basic_german_string in a fixed   *)
(* number of storage slots, the caller's buffers and the allocator's heap. *)
(***************************************************************************)
NumSlots == 2

Slots == 1..NumSlots

\* the caller's own buffers (literals, std::string data, mapped files)
Src == 1..2

\* the blocks the allocator can hand out
Heap == {3, 4}

\* the lengths the byte constructor is called with
CtorSizes == {0, 5, 12, 13}

\* "Hello, World!"
Hello == <<72, 101, 108, 108, 111, 44, 32, 87, 111, 114, 108, 100, 33>>

VARIABLES
    mem,     \* buffer -> bytes: the caller's buffers and the heap blocks
    obj,     \* slot -> the 16-byte record stored there
    alive,   \* the slots that hold a constructed object
    last,    \* the operation performed last, its operands and its effects
    ub       \* a block was deallocated that was not allocated (double free)

vars == <<mem, obj, alive, last, ub>>

NoOp ==
    [op |-> "none", dst |-> 0, src |-> 0, cls |-> persistent, n |-> U32(0),
     small |-> TRUE, allocs |-> <<>>, frees |-> <<>>, lost |-> <<>>, thrown |-> "no",
     res |-> 0, ok |-> FALSE, start |-> U32(0), via |-> 0, freedVia |-> 0, freedFrom |-> 0]

FreeBlocks(m) == {h \in Heap : ~m[h].live}

\* what allocate returns: the first block not in use (a freed block is handed
\* out again), or nothing when none is left
AllocChoices(m) ==
    IF FreeBlocks(m) = {} THEN {NoBlock}
    ELSE {CHOOSE h \in FreeBlocks(m) : \A g \in FreeBlocks(m) : h <= g}

\* std::allocator_traits<TAllocator>::deallocate(*this, p, n)
Deallocate(m, f) ==
    IF f.ptr.buf \in Heap /\ f.ptr.off = U32(0) /\ m[f.ptr.buf].live
    THEN [mem |-> [m EXCEPT ![f.ptr.buf] = FreeBlock], ub |-> FALSE]
    ELSE [mem |-> m, ub |-> TRUE]

\* run ~_gs_impl() on v
Destruct(m, v) ==
    IF DtorFrees(v) = <<>> THEN [mem |-> m, ub |-> FALSE] ELSE Deallocate(m, DtorFrees(v)[1])

Init ==
    /\ mem = [x \in Src \cup Heap |->
                IF x = 1 THEN Buffer(Hello, 0, U32(Len(Hello)))
                ELSE IF x \in Src THEN Buffer(<<>>, 0, U32(0))
                ELSE FreeBlock]
    /\ obj = [s \in Slots |-> EmptyImpl]
    /\ alive = {}
    /\ last = NoOp
    /\ ub = FALSE

\* basic_german_string(const TAllocator &allocator = TAllocator())
DefaultConstruct(s) ==
    /\ ~ub /\ s \notin alive
    /\ obj' = [obj EXCEPT ![s] = EmptyImpl]
    /\ alive' = alive \cup {s}
    /\ last' = [NoOp EXCEPT !.op = "default", !.dst = s]
    /\ UNCHANGED <<mem, ub>>

\* mutant of Construct: the object exists although its constructor threw
ConstructKeepsHalfBuilt(s, n, cls, blk) ==
    /\ ~ub /\ s \notin alive
    /\ LET r == GsImplCtor(mem, Ptr(1, U32(0)), U32(n), cls, blk)
       IN  /\ mem' = r.mem
           /\ obj' = [obj EXCEPT ![s] = r.val]
           /\ alive' = alive \cup {s}
           /\ last' = [NoOp EXCEPT !.op = "construct", !.dst = s, !.cls = cls, !.n = U32(n),
                                   !.allocs = r.allocs, !.thrown = r.thrown]
    /\ UNCHANGED ub

\* basic_german_string(const char *str, size_type size, string_class cls, allocator)
Construct(s, n, cls, blk) ==
    /\ ~ub /\ s \notin alive
    /\ LET r == GsImplCtor(mem, Ptr(1, U32(0)), U32(n), cls, blk)
       IN  /\ mem' = r.mem
           /\ obj' = IF r.thrown # "no" THEN obj ELSE [obj EXCEPT ![s] = r.val]
           /\ alive' = IF r.thrown # "no" THEN alive ELSE alive \cup {s}
           /\ last' = [NoOp EXCEPT !.op = "construct", !.dst = s, !.cls = cls, !.n = U32(n),
                                   !.allocs = r.allocs, !.thrown = r.thrown]
    /\ UNCHANGED ub

\* basic_german_string(basic_german_string &&other): d is constructed from s;
\* _impl(std::move(other._impl)) is the implicit member-wise copy of _gs_impl
MoveConstruct(d, s) ==
    /\ ~ub /\ d \notin alive /\ s \in alive
    /\ obj' = [obj EXCEPT ![d] = obj[s],
                          ![s] = IF _get_class(obj[s]) = temporary
                                 THEN _make_transient(obj[s]) ELSE obj[s]]
    /\ alive' = alive \cup {d}
    /\ last' = [NoOp EXCEPT !.op = "move_construct", !.dst = d, !.src = s,
                            !.small = _is_small(obj[s]), !.cls = _get_class(obj[s])]
    /\ UNCHANGED <<mem, ub>>

\* mutant of MoveAssign: the old value of dst is not destroyed first
MoveAssignLeaksTarget(d, s) ==
    /\ ~ub /\ d \in alive /\ s \in alive
    /\ IF d # s
       THEN /\ obj' = [obj EXCEPT ![d] = obj[s], ![s] = EmptyImpl]
            /\ last' = [NoOp EXCEPT !.op = "move_assign", !.dst = d, !.src = s]
            /\ UNCHANGED <<mem, ub>>
       ELSE /\ last' = [NoOp EXCEPT !.op = "move_assign", !.dst = d, !.src = s]
            /\ UNCHANGED <<mem, ub, obj>>
    /\ UNCHANGED alive

\* mutant of MoveAssign: the source is not reset after the transfer
MoveAssignKeepsSource(d, s) ==
    /\ ~ub /\ d \in alive /\ s \in alive
    /\ LET r == IF d # s THEN Destruct(mem, obj[d]) ELSE [mem |-> mem, ub |-> FALSE]
       IN  /\ mem' = r.mem
           /\ ub' = r.ub
    /\ obj' = [obj EXCEPT ![d] = obj[s]]
    /\ last' = [NoOp EXCEPT !.op = "move_assign", !.dst = d, !.src = s,
                            !.frees = IF d # s THEN DtorFrees(obj[d]) ELSE <<>>]
    /\ UNCHANGED alive

\* operator=(basic_german_string &&other)
MoveAssign(d, s) ==
    /\ ~ub /\ d \in alive /\ s \in alive
    /\ IF d # s
       THEN LET r == Destruct(mem, obj[d])
            IN  /\ mem' = r.mem
                /\ ub' = r.ub
                /\ obj' = [obj EXCEPT ![d] = obj[s], ![s] = EmptyImpl]
                /\ last' = [NoOp EXCEPT !.op = "move_assign", !.dst = d, !.src = s,
                                        !.frees = DtorFrees(obj[d])]
       ELSE /\ last' = [NoOp EXCEPT !.op = "move_assign", !.dst = d, !.src = s]
            /\ UNCHANGED <<mem, ub, obj>>
    /\ UNCHANGED alive

\* operator=(const basic_german_string &) = default: member-wise copy of _impl
CopyAssign(d, s) ==
    /\ ~ub /\ d \in alive /\ s \in alive
    /\ obj' = [obj EXCEPT ![d] = obj[s]]
    /\ last' = [NoOp EXCEPT !.op = "copy_assign", !.dst = d, !.src = s,
                            !.lost = IF d = s THEN <<>> ELSE DtorFrees(obj[d])]
    /\ UNCHANGED <<mem, alive, ub>>

\* ~basic_german_string()
Destroy(s) ==
    /\ ~ub /\ s \in alive
    /\ LET r == Destruct(mem, obj[s])
       IN  /\ mem' = r.mem
           /\ ub' = r.ub
    /\ obj' = [obj EXCEPT ![s] = EmptyImpl]
    /\ alive' = alive \ {s}
    /\ last' = [NoOp EXCEPT !.op = "destroy", !.dst = s, !.n = _get_size(obj[s]),
                            !.small = _is_small(obj[s]), !.cls = _get_class(obj[s]),
                            !.frees = DtorFrees(obj[s])]

Next ==
    \/ \E s \in Slots : DefaultConstruct(s)
    \/ \E s \in Slots, n \in CtorSizes, cls \in Classes, blk \in AllocChoices(mem) :
            Construct(s, n, cls, blk)
    \/ \E d \in Slots, s \in Slots : MoveConstruct(d, s)
    \/ \E d \in Slots, s \in Slots : MoveAssign(d, s)
    \/ \E d \in Slots, s \in Slots : CopyAssign(d, s)
    \/ \E s \in Slots : Destroy(s)

Spec == Init /\ [][Next]_vars

\* the same program when nobody calls the defaulted copy assignment
NextOwn ==
    \/ \E s \in Slots : DefaultConstruct(s)
    \/ \E s \in Slots, n \in CtorSizes, cls \in Classes, blk \in AllocChoices(mem) :
            Construct(s, n, cls, blk)
    \/ \E d \in Slots, s \in Slots : MoveConstruct(d, s)
    \/ \E d \in Slots, s \in Slots : MoveAssign(d, s)
    \/ \E s \in Slots : Destroy(s)

SpecOwn == Init /\ [][NextOwn]_vars

(***************************************************************************)
(* The derive operations substr and copy_to_temporary, next to the         *)
(* lifecycle members, with an allocator that may fail any request.         *)
(***************************************************************************)
\* allocate may also fail (throw, or return nullptr) when blocks are left
AllocOrFail(m) == AllocChoices(m) \cup {NoBlock}

\* the arguments substr is called with: 0, 1 and 2^32 - 1 for start;
\* 0, 4, 12, 13 and 2^32 - 1 for length
SubStarts == {U32(0), U32(1), <<B16 - 1, B16 - 1>>}

SubLens == {U32(0), U32(PREFIX_SIZE), U32(SMALL_STRING_SIZE), U32(SMALL_STRING_SIZE + 1),
            <<B16 - 1, B16 - 1>>}

\* start + length as a number, without the 32-bit wrap
MathSum(start, length) == AddN(start, length)

\* the payload v refers to is gone (v views a block that was deallocated)
Dangling(m, v) == ~_is_small(v) /\ ~m[_get_non_small_ptr(v).buf].live

\* _substr passed its range check although [start, start + length) is not
\* within the bytes of v: the constructor then reads outside the payload
ReadsOutside(v, start, length) ==
    /\ ~Lt(_get_size(v), <<MathSum(start, length)[1] % B16, MathSum(start, length)[2]>>)
    /\ Lt(_get_size(v), MathSum(start, length))

\* basic_german_string::substr(start, length, cls), called on s; d receives
\* the returned object.  The return statement converts the _gs_impl that
\* _substr returns to basic_german_string: the only viable constructor is
\* basic_german_string(const TAllocator &), reached through _gs_impl's base
\* class TAllocator, so d is constructed empty and the _gs_impl temporary is
\* destroyed at the end of the return statement.  A read outside the payload
\* or of a deallocated payload is undefined: the call crashes or goes on
\* (the constructor reads only after allocate has succeeded).
Substr(d, s, start, length, cls, blk, crash) ==
    /\ ~ub /\ d \notin alive /\ s \in alive
    /\ LET r == _substr(mem, obj[s], start, length, cls, blk)
           undefined == /\ r.thrown = "no"
                        /\ \/ ReadsOutside(obj[s], start, length)
                           \/ Dangling(mem, obj[s]) /\ Lt(U32(0), length)
           gone == Destruct(r.mem, r.val)
           rec == [NoOp EXCEPT !.op = "substr", !.dst = d, !.src = s, !.cls = cls,
                               !.n = length, !.start = start, !.thrown = r.thrown,
                               !.allocs = r.allocs]
       IN  /\ crash => undefined
           /\ IF crash
              THEN /\ ub' = TRUE
                   /\ last' = rec
                   /\ UNCHANGED <<mem, obj, alive>>
              ELSE IF r.thrown # "no"
              THEN /\ last' = rec
                   /\ UNCHANGED <<mem, obj, alive, ub>>
              ELSE /\ mem' = gone.mem
                   /\ ub' = gone.ub
                   /\ obj' = [obj EXCEPT ![d] = EmptyImpl]
                   /\ alive' = alive \cup {d}
                   /\ last' = [rec EXCEPT !.frees = DtorFrees(r.val)]

\* basic_german_string::copy_to_temporary(), called on s; d receives the
\* returned object.  The small branch, return *this, needs the copy
\* constructor, which is deleted because a move constructor is declared: the
\* statement is ill-formed and no value comes out of it.  The large branch
\* constructs a temporary-class value from the payload of s; copying a
\* payload that was deallocated is undefined.
CopyToTemporary(d, s, blk) ==
    /\ ~ub /\ d \notin alive /\ s \in alive
    /\ IF _is_small(obj[s])
       THEN /\ last' = [NoOp EXCEPT !.op = "copy_to_temporary", !.dst = d, !.src = s,
                                    !.n = _get_size(obj[s]), !.small = TRUE,
                                    !.thrown = "ill_formed"]
            /\ UNCHANGED <<mem, obj, alive, ub>>
       ELSE LET r == GsImplCtor(mem, _get_non_small_ptr(obj[s]), _get_size(obj[s]),
                                temporary, blk)
                rec == [NoOp EXCEPT !.op = "copy_to_temporary", !.dst = d, !.src = s,
                                    !.n = _get_size(obj[s]), !.small = FALSE,
                                    !.cls = _get_class(obj[s]),
                                    !.allocs = r.allocs, !.thrown = r.thrown]
            IN  IF Dangling(mem, obj[s]) /\ r.thrown = "no"
                THEN /\ ub' = TRUE
                     /\ last' = rec
                     /\ UNCHANGED <<mem, obj, alive>>
                ELSE /\ mem' = r.mem
                     /\ obj' = IF r.thrown # "no" THEN obj ELSE [obj EXCEPT ![d] = r.val]
                     /\ alive' = IF r.thrown # "no" THEN alive ELSE alive \cup {d}
                     /\ last' = rec
                     /\ UNCHANGED ub

\* the two objects of a derive call: the receiver and the returned object
DerSlots == {1, 2}

\* "Hello, World! Hi!": the caller's buffer, long enough for a substring of
\* more than 12 bytes that does not start at its first byte
LongText == Hello \o <<32, 72, 105, 33>>

\* the lengths the byte constructor is called with: empty, inline, and
\* the first 13 bytes or all of the caller's buffer
DerSizes == {0, 5, Len(Hello), Len(LongText)}

InitDer ==
    /\ mem = [x \in Src \cup Heap |->
                IF x = 1 THEN Buffer(LongText, 0, U32(Len(LongText)))
                ELSE IF x \in Src THEN Buffer(<<>>, 0, U32(0))
                ELSE FreeBlock]
    /\ obj = [s \in Slots |-> EmptyImpl]
    /\ alive = {}
    /\ last = NoOp
    /\ ub = FALSE

NextDer ==
    \/ \E s \in DerSlots : DefaultConstruct(s)
    \/ \E s \in DerSlots, n \in DerSizes, cls \in Classes, blk \in AllocOrFail(mem) :
            Construct(s, n, cls, blk)
    \/ \E d \in DerSlots, s \in DerSlots : MoveConstruct(d, s)
    \/ \E d \in DerSlots, s \in DerSlots : MoveAssign(d, s)
    \/ \E s \in DerSlots : Destroy(s)
    \/ \E d \in DerSlots, s \in DerSlots, start \in SubStarts, length \in SubLens,
          cls \in Classes, blk \in AllocOrFail(mem), crash \in BOOLEAN :
            Substr(d, s, start, length, cls, blk, crash)
    \/ \E d \in DerSlots, s \in DerSlots, blk \in AllocOrFail(mem) : CopyToTemporary(d, s, blk)

SpecDer == InitDer /\ [][NextDer]_vars

(***************************************************************************)
(* The comparison operations on two values a (slot 1) and b (slot 2),      *)
(* built by the byte constructor from two caller buffers whose contents    *)
(* are drawn from a family of strings: the base byte repeated, with at     *)
(* most one byte replaced, in every length around the prefix width, at the *)
(* inline limit, just above it, and at 2^31 and more.                      *)
(***************************************************************************)
MaxShort == 5

HugeHead == 5

\* the bytes the contents are made of: 'a', NUL, and a byte above 127 (it
\* orders after 'a' only when read unsigned)
InputBytes == <<97, 0, 195>>

BaseByte == InputBytes[1]

HighByte == InputBytes[3]

Run(n) == SubSeq([i \in 1..n |-> BaseByte], 1, n)

\* the strings of length n with at most one byte out of devs, within the first k
OneOff(n, k, devs) ==
    {Run(n)} \cup {[Run(n) EXCEPT ![i] = d] : i \in 1..k, d \in devs}

\* 2^31 + 12 and 2^32 - 1
HugeLens == {<<B16 \div 2, SMALL_STRING_SIZE>>, <<B16 - 1, B16 - 1>>}

Contents ==
    UNION {{Buffer(h, BaseByte, U32(n)) : h \in OneOff(n, n, {InputBytes[2], HighByte})} : n \in 0..MaxShort}
    \cup UNION {{Buffer(h, BaseByte, U32(n)) : h \in OneOff(n, n, {HighByte})} :
                    n \in {SMALL_STRING_SIZE, SMALL_STRING_SIZE + 1}}
    \cup UNION {{Buffer(h, BaseByte, n) : h \in OneOff(HugeHead, HugeHead, {HighByte})} :
                    n \in HugeLens}

InitCmp ==
    \E ca \in Contents, cb \in Contents, clsA \in Classes, clsB \in Classes :
        LET m0 == [x \in Src \cup Heap |->
                      IF x = 1 THEN ca ELSE IF x = 2 THEN cb ELSE FreeBlock]
            ra == GsImplCtor(m0, Ptr(1, U32(0)), ca.len, clsA, CHOOSE h \in AllocChoices(m0) : TRUE)
            rb == GsImplCtor(ra.mem, Ptr(2, U32(0)), cb.len, clsB,
                             CHOOSE h \in AllocChoices(ra.mem) : TRUE)
        IN  /\ mem = rb.mem
            /\ obj = [s \in Slots |-> IF s = 1 THEN ra.val ELSE IF s = 2 THEN rb.val ELSE EmptyImpl]
            /\ alive = {1, 2}
            /\ last = NoOp
            /\ ub = FALSE

\* a.compare(b)
Compare(a, b) ==
    /\ last' = [NoOp EXCEPT !.op = "compare", !.dst = a, !.src = b,
                            !.res = _compare(mem, obj[a], obj[b])]
    /\ UNCHANGED <<mem, obj, alive, ub>>

\* a == b
Equals(a, b) ==
    /\ last' = [NoOp EXCEPT !.op = "equals", !.dst = a, !.src = b,
                            !.ok = _equals(mem, obj[a], obj[b])]
    /\ UNCHANGED <<mem, obj, alive, ub>>

\* a.starts_with(b)
StartsWith(a, b) ==
    /\ last' = [NoOp EXCEPT !.op = "starts_with", !.dst = a, !.src = b,
                            !.ok = _starts_with(mem, obj[a], obj[b])]
    /\ UNCHANGED <<mem, obj, alive, ub>>

\* a.ends_with(b)
EndsWith(a, b) ==
    /\ last' = [NoOp EXCEPT !.op = "ends_with", !.dst = a, !.src = b,
                            !.ok = _ends_with(mem, obj[a], obj[b])]
    /\ UNCHANGED <<mem, obj, alive, ub>>

NextCmp ==
    \/ Compare(1, 2)
    \/ Equals(1, 2)
    \/ StartsWith(1, 2)
    \/ EndsWith(1, 2)

SpecCmp == InitCmp /\ [][NextCmp]_vars

(***************************************************************************)
(* Properties of construction, move and destruction (Spec, SpecOwn).       *)
(***************************************************************************)
IsOwner(v) == ~_is_small(v) /\ TagBits(v) = temporary

\* as_string_view() of the object in slot s: where it points and how long it is
as_string_view(s) ==
    [ptr |-> IF _is_small(obj[s]) THEN Ptr(0 - s, U32(0)) ELSE _get_non_small_ptr(obj[s]),
     n |-> _get_size(obj[s])]

\* C1: constructing from 0..12 bytes, whatever class is requested, calls the
\* allocator not at all and yields a value of class persistent; destroying a
\* value of at most 12 bytes deallocates nothing.
C1_SmallNeverTouchesAllocator ==
    /\ (last.op = "construct" /\ Le(last.n, U32(12))) =>
            /\ last.thrown = "no"
            /\ last.allocs = <<>>
            /\ _get_class(obj[last.dst]) = persistent
            /\ DtorFrees(obj[last.dst]) = <<>>
    /\ (last.op = "destroy" /\ Le(last.n, U32(12))) => last.frees = <<>>

C1_Witness ==
    /\ last.op = "construct" /\ last.n = U32(12) /\ last.cls = temporary
    /\ last.dst \in alive /\ _get_size(obj[last.dst]) = U32(12)

\* C2: a value of more than 12 bytes constructed with class temporary made
\* exactly one allocate call, for exactly its size; it reports temporary; and
\* its destructor makes exactly one deallocate call, on the address allocate
\* returned.
C2_TemporaryAllocatesOnceFreesOnce ==
    /\ (last.op = "construct" /\ Lt(U32(12), last.n) /\ last.cls = temporary /\ last.thrown = "no") =>
            /\ Len(last.allocs) = 1
            /\ last.allocs[1].n = last.n
            /\ last.allocs[1].blk \in Heap
            /\ mem[last.allocs[1].blk].live
            /\ _get_class(obj[last.dst]) = temporary
            /\ DtorFrees(obj[last.dst]) = <<[ptr |-> Ptr(last.allocs[1].blk, U32(0)), n |-> last.n]>>
    /\ (last.op = "destroy" /\ ~last.small /\ last.cls = temporary) =>
            /\ Len(last.frees) = 1
            /\ last.frees[1].n = last.n
            /\ last.frees[1].ptr.buf \in Heap
            /\ (~ub => ~mem[last.frees[1].ptr.buf].live)

C2_Witness ==
    /\ last.op = "destroy" /\ ~last.small /\ last.cls = temporary
    /\ Len(last.frees) = 1 /\ ~ub

\* C3: after move construction of dst from a temporary src of more than 12
\* bytes nothing was allocated, dst reports temporary, src reports
\* transient, both view the same bytes, the destructor of src deallocates
\* nothing and that of dst deallocates the payload once; a transient value
\* never deallocates when it is destroyed.
C3_MoveConstructTransfersOwnership ==
    /\ (last.op = "move_construct" /\ ~last.small /\ last.cls = temporary) =>
            /\ last.allocs = <<>>
            /\ _get_class(obj[last.dst]) = temporary
            /\ _get_class(obj[last.src]) = transient
            /\ as_string_view(last.src) = as_string_view(last.dst)
            /\ DtorFrees(obj[last.src]) = <<>>
            /\ DtorFrees(obj[last.dst]) =
                    <<[ptr |-> as_string_view(last.dst).ptr, n |-> as_string_view(last.dst).n]>>
    /\ (last.op = "destroy" /\ ~last.small /\ last.cls = transient) => last.frees = <<>>

C3_Witness ==
    /\ last.op = "move_construct" /\ ~last.small /\ last.cls = temporary
    /\ {last.src, last.dst} \subseteq alive

\* C4: without copy assignment, whatever the sequence of constructions, move
\* constructions, move assignments and destructions: nothing is deallocated
\* twice, every allocated block is referenced by exactly one live value
\* tagged temporary, every such value refers to an allocated block, and when
\* no object is left no block is left allocated.
C4_SingleOwner ==
    /\ ~ub
    /\ \A h \in Heap : mem[h].live =>
            Cardinality({s \in alive : IsOwner(obj[s]) /\ _get_non_small_ptr(obj[s]).buf = h}) = 1
    /\ \A s \in alive : IsOwner(obj[s]) =>
            /\ _get_non_small_ptr(obj[s]).buf \in Heap
            /\ mem[_get_non_small_ptr(obj[s]).buf].live
    /\ alive = {} => FreeBlocks(mem) = Heap

C4_Witness ==
    /\ alive = {} /\ last.op = "destroy" /\ Len(last.frees) = 1 /\ FreeBlocks(mem) = Heap

\* C5 (as claimed): copy assignment never leaves two live values tagged
\* temporary on one payload address, nothing is deallocated twice, and the
\* payload the destination owned before is not left allocated without owner.
C5_CopyAssignKeepsSingleOwner ==
    /\ ~ub
    /\ \A s \in alive, t \in alive :
            (s # t /\ IsOwner(obj[s]) /\ IsOwner(obj[t])) =>
                _get_non_small_ptr(obj[s]) # _get_non_small_ptr(obj[t])
    /\ last.op = "copy_assign" => last.lost = <<>>

(***************************************************************************)
(* Properties of the comparison operations (SpecCmp).  The reference is    *)
(* the content of the two caller buffers the values a and b were built     *)
(* from: mem[1] for a and mem[2] for b.                                    *)
(***************************************************************************)
BufByte(c, i) == IF i[1] = 0 /\ i[2] < Len(c.head) THEN c.head[i[2] + 1] ELSE c.fill

BufExplicit(c, i) == IF i[1] = 0 /\ i[2] < Len(c.head) THEN Len(c.head) - i[2] ELSE 0

\* the difference of the first bytes in which c[co .. co+n) and d[do .. do+n)
\* differ, bytes read as 0..255; 0 if the ranges agree
RangeDiff(c, co, d, do, n) ==
    LET w == Max2(BufExplicit(c, co), BufExplicit(d, do))
        k == IF n[1] = 0 /\ n[2] < w THEN n[2] ELSE w
        D == {i \in 0..(k - 1) : BufByte(c, AddN(co, U32(i))) # BufByte(d, AddN(do, U32(i)))}
        first == CHOOSE i \in D : \A j \in D : i <= j
    IN  IF D # {}
        THEN BufByte(c, AddN(co, U32(first))) - BufByte(d, AddN(do, U32(first)))
        ELSE IF Lt(U32(w), n) /\ c.fill # d.fill THEN c.fill - d.fill ELSE 0

Sign(x) == IF x < 0 THEN 0 - 1 ELSE IF x > 0 THEN 1 ELSE 0

SizeOrder(c, d) == IF Lt(c.len, d.len) THEN 0 - 1 ELSE IF c.len = d.len THEN 0 ELSE 1

\* one content is a prefix of the other
PrefixRelated(c, d) == RangeDiff(c, U32(0), d, U32(0), MinU(c.len, d.len)) = 0

\* byte-wise lexicographic order, a proper prefix first
LexOrder(c, d) ==
    IF PrefixRelated(c, d) THEN SizeOrder(c, d)
    ELSE Sign(RangeDiff(c, U32(0), d, U32(0), MinU(c.len, d.len)))

SameContent(c, d) == c.len = d.len /\ RangeDiff(c, U32(0), d, U32(0), c.len) = 0

HasPrefix(c, d) == Le(d.len, c.len) /\ RangeDiff(c, U32(0), d, U32(0), d.len) = 0

HasSuffix(c, d) == Le(d.len, c.len) /\ RangeDiff(c, SubU32(c.len, d.len), d, U32(0), d.len) = 0

\* C6 (as claimed): the sign of a.compare(b) is the byte-wise unsigned
\* lexicographic order of the contents, a proper prefix before the longer
\* string, for values of any sizes, modes and classes.
C6_CompareIsLexicographic ==
    last.op = "compare" => Sign(last.res) = LexOrder(mem[1], mem[2])

\* C7 (as claimed): when one content is a prefix of the other, a.compare(b)
\* is negative, zero or positive as a.size is less than, equal to or greater
\* than b.size, for every pair of 32-bit sizes.
C7_TieBreakBySize ==
    (last.op = "compare" /\ PrefixRelated(mem[1], mem[2])) =>
        Sign(last.res) = SizeOrder(mem[1], mem[2])

\* C8: a == b exactly when the sizes are equal and the bytes identical,
\* whatever the classes, the modes and the payload addresses.
C8_EqualsIsContentEquality ==
    last.op = "equals" => (last.ok <=> SameContent(mem[1], mem[2]))

\* two temporary values of more than 12 bytes in two heap blocks compare equal
C8_Witness ==
    /\ last.op = "equals" /\ last.ok
    /\ IsOwner(obj[1]) /\ IsOwner(obj[2])
    /\ _get_non_small_ptr(obj[1]) # _get_non_small_ptr(obj[2])

\* C9 (as claimed): a.starts_with(b) exactly when b.size <= a.size and the
\* first b.size bytes of a are the bytes of b, needles shorter than 4 bytes
\* and the empty needle included.
C9_StartsWithIsPrefixTest ==
    last.op = "starts_with" => (last.ok <=> HasPrefix(mem[1], mem[2]))

\* C10: a.ends_with(b) exactly when b.size <= a.size and the last b.size
\* bytes of a are the bytes of b, for small and large a and b.
C10_EndsWithIsSuffixTest ==
    last.op = "ends_with" => (last.ok <=> HasSuffix(mem[1], mem[2]))

\* a large a ends with a non-empty small b whose bytes are not all alike
C10_Witness ==
    /\ last.op = "ends_with" /\ last.ok
    /\ ~_is_small(obj[1]) /\ _is_small(obj[2]) /\ Lt(U32(1), _get_size(obj[2]))
    /\ mem[2].head[1] # mem[2].head[2]

(***************************************************************************)
(* The constructors that take a length of the host's size type (size_t,    *)
(* 64 bits): a length is a pair <<hi, lo>> whose hi may reach B16 and      *)
(* beyond.  The caller's buffer holds a string of the drawn length.        *)
(***************************************************************************)
\* std::numeric_limits<size_type>::max()
MaxU32 == <<B16 - 1, B16 - 1>>

\* detail::_checked_size_cast(size)
_checked_size_cast(size) ==
    IF Lt(MaxU32, size)
    THEN [thrown |-> "length_error", val |-> U32(0)]
    ELSE [thrown |-> "no", val |-> size]

\* conversion of a size_t to size_type without a check (static_cast, or the
\* implicit conversion of an argument): the low 32 bits
Narrow32(size) == <<size[1] % B16, size[2]>>

\* 0, 5, 12, 13, 2^32 - 1, 2^32, 2^32 + 5, 2^32 + 13 and 2^33 + 12
HostLens ==
    {U32(0), U32(5), U32(SMALL_STRING_SIZE), U32(SMALL_STRING_SIZE + 1), MaxU32,
     <<B16, 0>>, <<B16, 5>>, <<B16, SMALL_STRING_SIZE + 1>>, <<2 * B16, SMALL_STRING_SIZE>>}

\* a string of n bytes that begins like "Hello, World!"
HostBuffer(n) ==
    Buffer(SubSeq(Hello, 1, IF n[1] = 0 /\ n[2] < Len(Hello) THEN n[2] ELSE Len(Hello)),
           Hello[Len(Hello)], n)

InitLen ==
    /\ \E n \in HostLens :
          mem = [x \in Src \cup Heap |->
                    IF x = 1 THEN HostBuffer(n)
                    ELSE IF x \in Src THEN Buffer(<<>>, 0, U32(0))
                    ELSE FreeBlock]
    /\ obj = [s \in Slots |-> EmptyImpl]
    /\ alive = {}
    /\ last = NoOp
    /\ ub = FALSE

\* the delegation target of the three constructors below:
\* basic_german_string(str, size, cls, allocator) on the caller's buffer
ConstructSized(s, op, size, cls, blk) ==
    LET r == GsImplCtor(mem, Ptr(1, U32(0)), size, cls, blk)
    IN  /\ mem' = r.mem
        /\ obj' = IF r.thrown # "no" THEN obj ELSE [obj EXCEPT ![s] = r.val]
        /\ alive' = IF r.thrown # "no" THEN alive ELSE alive \cup {s}
        /\ last' = [NoOp EXCEPT !.op = op, !.dst = s, !.cls = cls, !.n = size,
                                !.allocs = r.allocs, !.thrown = r.thrown]
        /\ UNCHANGED ub

\* basic_german_string(const char *ptr, string_class cls, allocator):
\* the length is std::strlen(ptr), passed through _checked_size_cast
ConstructCStr(s, cls, blk) ==
    /\ ~ub /\ s \notin alive
    /\ LET c == _checked_size_cast(mem[1].len)
       IN  IF c.thrown # "no"
           THEN /\ last' = [NoOp EXCEPT !.op = "construct_cstr", !.dst = s, !.cls = cls,
                                        !.thrown = c.thrown]
                /\ UNCHANGED <<mem, obj, alive, ub>>
           ELSE ConstructSized(s, "construct_cstr", c.val, cls, blk)

\* basic_german_string(const std::string &str, allocator): str.size() is
\* passed for the size_type parameter of the delegation target
ConstructStdString(s, blk) ==
    /\ ~ub /\ s \notin alive
    /\ ConstructSized(s, "construct_string", Narrow32(mem[1].len), temporary, blk)

\* literals::operator"" _gs(str, size):
\* german_string(str, static_cast<size_type>(size), string_class::persistent)
ConstructLiteral(s) ==
    /\ ~ub /\ s \notin alive
    /\ ConstructSized(s, "construct_literal", Narrow32(mem[1].len), persistent, NoBlock)

NextLen ==
    \/ \E s \in Slots, cls \in Classes, blk \in AllocChoices(mem) : ConstructCStr(s, cls, blk)
    \/ \E s \in Slots, blk \in AllocChoices(mem) : ConstructStdString(s, blk)
    \/ \E s \in Slots : ConstructLiteral(s)
    \/ \E s \in Slots : Destroy(s)

SpecLen == InitLen /\ [][NextLen]_vars

(***************************************************************************)
(* Stateful allocators.  _gs_impl derives from TAllocator, so every value  *)
(* holds an allocator instance: here a value record has a further field al *)
(* naming the instance, and a heap block a field by naming the instance    *)
(* that allocated it.  Instances are told apart by their number.           *)
(***************************************************************************)
Allocs == {1, 2}

\* the value v in an object whose TAllocator base is the instance a
WithAlloc(v, a) == [size |-> v.size, pre |-> v.pre, st1 |-> v.st1, al |-> a]

\* memory m in which the blocks handed out by the allocate calls in allocs
\* are marked as allocated by instance a
AllocatedBy(m, allocs, a) ==
    [x \in DOMAIN m |->
        IF \E i \in 1..Len(allocs) : allocs[i].blk = x /\ x # NoBlock
        THEN [len |-> m[x].len, head |-> m[x].head, fill |-> m[x].fill, live |-> m[x].live,
              by |-> a]
        ELSE m[x]]

\* the instance that allocated the block v would deallocate, 0 if none
BlockOrigin(m, v) ==
    IF DtorFrees(v) # <<>> /\ m[_get_non_small_ptr(v).buf].live
    THEN m[_get_non_small_ptr(v).buf].by ELSE 0

\* basic_german_string(allocator)
DefaultConstructWith(s, a) ==
    /\ ~ub /\ s \notin alive
    /\ obj' = [obj EXCEPT ![s] = WithAlloc(EmptyImpl, a)]
    /\ alive' = alive \cup {s}
    /\ last' = [NoOp EXCEPT !.op = "default", !.dst = s]
    /\ UNCHANGED <<mem, ub>>

\* basic_german_string(str, size, cls, allocator): _impl is built with
\* TAllocator(allocator), and allocate is called on it
ConstructWith(s, n, cls, blk, a) ==
    /\ ~ub /\ s \notin alive
    /\ LET r == GsImplCtor(mem, Ptr(1, U32(0)), U32(n), cls, blk)
       IN  /\ mem' = AllocatedBy(r.mem, r.allocs, a)
           /\ obj' = IF r.thrown # "no" THEN obj ELSE [obj EXCEPT ![s] = WithAlloc(r.val, a)]
           /\ alive' = IF r.thrown # "no" THEN alive ELSE alive \cup {s}
           /\ last' = [NoOp EXCEPT !.op = "construct", !.dst = s, !.cls = cls, !.n = U32(n),
                                   !.allocs = r.allocs, !.thrown = r.thrown,
                                   !.via = IF r.allocs # <<>> THEN a ELSE 0]
    /\ UNCHANGED ub

\* mutant of MoveAssignWith: the allocator base is not assigned, dst keeps
\* the instance it was built with
MoveAssignKeepsAllocator(d, s) ==
    /\ ~ub /\ d \in alive /\ s \in alive /\ d # s
    /\ LET r == Destruct(mem, obj[d])
       IN  /\ mem' = r.mem
           /\ ub' = r.ub
           /\ obj' = [obj EXCEPT ![d] = WithAlloc(obj[s], obj[d].al),
                                 ![s] = WithAlloc(EmptyImpl, obj[s].al)]
           /\ last' = [NoOp EXCEPT !.op = "move_assign", !.dst = d, !.src = s,
                                   !.frees = DtorFrees(obj[d]),
                                   !.freedVia = IF DtorFrees(obj[d]) # <<>> THEN obj[d].al ELSE 0,
                                   !.freedFrom = BlockOrigin(mem, obj[d])]
    /\ UNCHANGED alive

\* operator=(basic_german_string &&other), other a different object:
\* ~_gs_impl() deallocates through the allocator base of dst; the implicit
\* assignment of _gs_impl then assigns the allocator base along with the
\* state words; only the state words of other are zeroed
MoveAssignWith(d, s) ==
    /\ ~ub /\ d \in alive /\ s \in alive /\ d # s
    /\ LET r == Destruct(mem, obj[d])
       IN  /\ mem' = r.mem
           /\ ub' = r.ub
           /\ obj' = [obj EXCEPT ![d] = obj[s], ![s] = WithAlloc(EmptyImpl, obj[s].al)]
           /\ last' = [NoOp EXCEPT !.op = "move_assign", !.dst = d, !.src = s,
                                   !.frees = DtorFrees(obj[d]),
                                   !.freedVia = IF DtorFrees(obj[d]) # <<>> THEN obj[d].al ELSE 0,
                                   !.freedFrom = BlockOrigin(mem, obj[d])]
    /\ UNCHANGED alive

\* ~basic_german_string(): ~_gs_impl() deallocates through its allocator base
DestroyWith(s) ==
    /\ ~ub /\ s \in alive
    /\ LET r == Destruct(mem, obj[s])
       IN  /\ mem' = r.mem
           /\ ub' = r.ub
    /\ obj' = [obj EXCEPT ![s] = EmptyImpl]
    /\ alive' = alive \ {s}
    /\ last' = [NoOp EXCEPT !.op = "destroy", !.dst = s, !.n = _get_size(obj[s]),
                            !.small = _is_small(obj[s]), !.cls = _get_class(obj[s]),
                            !.frees = DtorFrees(obj[s]),
                            !.freedVia = IF DtorFrees(obj[s]) # <<>> THEN obj[s].al ELSE 0,
                            !.freedFrom = BlockOrigin(mem, obj[s])]

\* substr(start, length, cls) on a value whose payload exists, the range
\* within it: _substr passes *this as the allocator of the _gs_impl it
\* builds; the returned object is built from that _gs_impl's allocator base,
\* and the _gs_impl is destroyed
SubstrWith(d, s, start, length, cls, blk) ==
    /\ ~ub /\ d \notin alive /\ s \in alive
    /\ ~Dangling(mem, obj[s]) /\ ~ReadsOutside(obj[s], start, length)
    /\ LET r == _substr(mem, obj[s], start, length, cls, blk)
           made == AllocatedBy(r.mem, r.allocs, obj[s].al)
           tmp == WithAlloc(r.val, obj[s].al)
           gone == Destruct(made, tmp)
           rec == [NoOp EXCEPT !.op = "substr", !.dst = d, !.src = s, !.cls = cls,
                               !.n = length, !.start = start, !.thrown = r.thrown,
                               !.allocs = r.allocs,
                               !.via = IF r.allocs # <<>> THEN obj[s].al ELSE 0]
       IN  IF r.thrown # "no"
           THEN /\ last' = rec
                /\ UNCHANGED <<mem, obj, alive, ub>>
           ELSE /\ mem' = gone.mem
                /\ ub' = gone.ub
                /\ obj' = [obj EXCEPT ![d] = WithAlloc(EmptyImpl, tmp.al)]
                /\ alive' = alive \cup {d}
                /\ last' = [rec EXCEPT !.frees = DtorFrees(tmp),
                                       !.freedVia = IF DtorFrees(tmp) # <<>> THEN tmp.al ELSE 0,
                                       !.freedFrom = BlockOrigin(made, tmp)]

\* the large branch of copy_to_temporary(): the copy is built with
\* get_allocator(), a copy of the allocator base of the source
CopyToTemporaryWith(d, s, blk) ==
    /\ ~ub /\ d \notin alive /\ s \in alive
    /\ ~_is_small(obj[s]) /\ ~Dangling(mem, obj[s])
    /\ LET r == GsImplCtor(mem, _get_non_small_ptr(obj[s]), _get_size(obj[s]), temporary, blk)
       IN  /\ mem' = AllocatedBy(r.mem, r.allocs, obj[s].al)
           /\ obj' = IF r.thrown # "no" THEN obj
                     ELSE [obj EXCEPT ![d] = WithAlloc(r.val, obj[s].al)]
           /\ alive' = IF r.thrown # "no" THEN alive ELSE alive \cup {d}
           /\ last' = [NoOp EXCEPT !.op = "copy_to_temporary", !.dst = d, !.src = s,
                                   !.n = _get_size(obj[s]), !.small = FALSE,
                                   !.cls = _get_class(obj[s]),
                                   !.allocs = r.allocs, !.thrown = r.thrown,
                                   !.via = IF r.allocs # <<>> THEN obj[s].al ELSE 0]
    /\ UNCHANGED ub

NextAlloc ==
    \/ \E s \in DerSlots, a \in Allocs : DefaultConstructWith(s, a)
    \/ \E s \in DerSlots, n \in CtorSizes, cls \in Classes, blk \in AllocChoices(mem),
          a \in Allocs : ConstructWith(s, n, cls, blk, a)
    \/ \E d \in DerSlots, s \in DerSlots : MoveConstruct(d, s)
    \/ \E d \in DerSlots, s \in DerSlots : MoveAssignWith(d, s)
    \/ \E s \in DerSlots : DestroyWith(s)
    \/ \E d \in DerSlots, s \in DerSlots, start \in SubStarts, length \in SubLens,
          cls \in Classes, blk \in AllocChoices(mem) : SubstrWith(d, s, start, length, cls, blk)
    \/ \E d \in DerSlots, s \in DerSlots, blk \in AllocChoices(mem) :
            CopyToTemporaryWith(d, s, blk)

SpecAlloc == Init /\ [][NextAlloc]_vars

(***************************************************************************)
(* Properties of substr, copy_to_temporary and the representation          *)
(* (SpecDer), and of the remaining lifecycle contracts.                    *)
(***************************************************************************)
\* C11 (as claimed): whenever start + length, as a number, exceeds the size
\* of the parent, substr fails with an out-of-range error, performs no
\* allocation and produces no value; this for all 32-bit start and length,
\* those whose 32-bit sum wraps around included.
C11_SubstrRangeChecked ==
    (last.op = "substr" /\ Lt(_get_size(obj[last.src]), MathSum(last.start, last.n))) =>
        /\ last.thrown = "out_of_range"
        /\ last.allocs = <<>>
        /\ last.dst \notin alive

\* the bytes v views, for a value of fewer than 2^16 bytes
Content(m, v) ==
    BytesAt(WithRecords(m, v, v), _get_maybe_small_ptr(v, ThisBuf), _get_size(v)[2])

\* bytes [start, start + n) of what v views
Slice(m, v, start, n) ==
    BytesAt(WithRecords(m, v, v), PtrAdd(_get_maybe_small_ptr(v, ThisBuf), start), n[2])

\* the substr call reported in last was given a range within its parent, the
\* parent's payload exists and the allocator did not fail
SubstrInRange ==
    /\ last.op = "substr"
    /\ ~Lt(_get_size(obj[last.src]), MathSum(last.start, last.n))
    /\ ~Dangling(mem, obj[last.src])
    /\ last.thrown # "bad_alloc"

\* C12 (as claimed): for start + length <= a.size and every requested class,
\* a.substr(start, length, cls) is a value of size length whose content is
\* bytes [start, start + length) of a; substr(0, a.size) is content-equal to a.
C12_SubstrIsTheSlice ==
    SubstrInRange =>
        /\ last.dst \in alive
        /\ _get_size(obj[last.dst]) = last.n
        /\ Content(mem, obj[last.dst]) = Slice(mem, obj[last.src], last.start, last.n)

\* C13 (as claimed): on every construction path that takes a host-sized
\* length (C-string, std::string, the _gs literal), a length above 2^32 - 1
\* fails with a length error and no value is constructed; no path stores the
\* length truncated modulo 2^32.
C13_HostLengthChecked ==
    (last.op \in {"construct_cstr", "construct_string", "construct_literal"}
        /\ Lt(MaxU32, mem[1].len)) =>
        /\ last.thrown = "length_error"
        /\ last.dst \notin alive

\* C14: constructing a value of more than 12 bytes with class persistent or
\* transient calls allocate never, stores the address it was given (the view
\* starts at the caller's pointer), reports the requested class, and the
\* destruction of such a value calls deallocate never.
C14_BorrowedNeverTouchesAllocator ==
    /\ (last.op = "construct" /\ Lt(U32(SMALL_STRING_SIZE), last.n)
            /\ last.cls \in {persistent, transient}) =>
            /\ last.thrown = "no"
            /\ last.allocs = <<>>
            /\ last.dst \in alive
            /\ as_string_view(last.dst) = [ptr |-> Ptr(1, U32(0)), n |-> last.n]
            /\ _get_class(obj[last.dst]) = last.cls
            /\ DtorFrees(obj[last.dst]) = <<>>
    /\ (last.op = "destroy" /\ ~last.small /\ last.cls \in {persistent, transient}) =>
            /\ last.frees = <<>>
            /\ ~ub

\* a transient value of 13 bytes was constructed on the caller's buffer
C14_Witness ==
    /\ last.op = "construct" /\ last.n = U32(SMALL_STRING_SIZE + 1) /\ last.cls = transient
    /\ last.dst \in alive /\ _get_non_small_ptr(obj[last.dst]) = Ptr(1, U32(0))

\* C15 (as claimed): after move assignment dst = std::move(src), dst and src
\* different objects and src a temporary value of more than 12 bytes, src
\* reports transient and still views the same bytes, and dst reports
\* temporary and owns the payload.  (dst now holds the record src had.)
C15_MoveAssignRetagsSource ==
    (last.op = "move_assign" /\ last.dst # last.src /\ IsOwner(obj[last.dst])) =>
        /\ _get_class(obj[last.dst]) = temporary
        /\ _get_class(obj[last.src]) = transient
        /\ as_string_view(last.src) = as_string_view(last.dst)

\* C16: as_string_view() of a freshly constructed value has the length given
\* to the constructor and the bytes given to it, for every length and class;
\* for at most 12 bytes the view starts inside the object itself, for more
\* at the stored address: the caller's pointer, or for class temporary the
\* block allocate returned.
C16_ViewIsWhatWasConstructed ==
    (last.op = "construct" /\ last.thrown = "no") =>
        /\ last.dst \in alive
        /\ as_string_view(last.dst).n = last.n
        /\ Content(mem, obj[last.dst]) = BytesAt(mem, Ptr(1, U32(0)), last.n[2])
        /\ as_string_view(last.dst).ptr =
              IF Le(last.n, U32(SMALL_STRING_SIZE)) THEN Ptr(0 - last.dst, U32(0))
              ELSE IF last.cls = temporary THEN Ptr(last.allocs[1].blk, U32(0))
              ELSE Ptr(1, U32(0))

\* a 5-byte value constructed with class transient views its own inline bytes
C16_Witness ==
    /\ last.op = "construct" /\ last.thrown = "no" /\ last.n = U32(5) /\ last.cls = transient
    /\ Content(mem, obj[last.dst]) = SubSeq(Hello, 1, 5)

\* C17 (as claimed): copy_to_temporary of any value whose payload exists
\* returns, unless the allocator fails, a value with equal content and its
\* own storage: for more than 12 bytes it reports temporary, one allocate call
\* was made, its address differs from the source's and its destructor
\* deallocates it once; for at most 12 bytes it is an inline persistent value
\* and no allocate call was made.
C17_CopyToTemporaryDetaches ==
    (last.op = "copy_to_temporary" /\ ~ub /\ last.thrown # "bad_alloc") =>
        /\ last.dst \in alive
        /\ Content(mem, obj[last.dst]) = Content(mem, obj[last.src])
        /\ IF last.small
           THEN /\ _is_small(obj[last.dst])
                /\ _get_class(obj[last.dst]) = persistent
                /\ last.allocs = <<>>
           ELSE /\ _get_class(obj[last.dst]) = temporary
                /\ Len(last.allocs) = 1
                /\ _get_non_small_ptr(obj[last.dst]) # _get_non_small_ptr(obj[last.src])
                /\ Len(DtorFrees(obj[last.dst])) = 1

\* C18 (as claimed): substr with the default class transient and a length
\* above 12, within the parent, calls allocate never and returns a value
\* that reports transient, whose view starts at the parent's view plus start,
\* and whose destructor deallocates nothing.
C18_SubstrIsZeroCopyView ==
    (SubstrInRange /\ last.cls = transient /\ Lt(U32(SMALL_STRING_SIZE), last.n)) =>
        /\ last.allocs = <<>>
        /\ last.dst \in alive
        /\ _get_class(obj[last.dst]) = transient
        /\ as_string_view(last.dst).ptr = PtrAdd(as_string_view(last.src).ptr, last.start)
        /\ DtorFrees(obj[last.dst]) = <<>>

\* a call left by std::bad_alloc made one allocate attempt, for the size asked
\* of it, made no deallocate call and produced no value
FailedAllocationIsClean ==
    last.thrown = "bad_alloc" =>
        /\ last.op \in {"construct", "substr", "copy_to_temporary"}
        /\ (last.op = "construct" \/ last.cls = temporary \/ last.op = "copy_to_temporary")
        /\ Lt(U32(SMALL_STRING_SIZE), last.n)
        /\ last.allocs = <<[blk |-> NoBlock, n |-> last.n]>>
        /\ last.frees = <<>>
        /\ last.dst \notin alive

\* a step that ends in std::bad_alloc changes no object and no memory
FailedAllocationChangesNothing ==
    last'.thrown = "bad_alloc" => UNCHANGED <<mem, obj, alive, ub>>

PrefixMatches(m, v) ==
    _get_prefix(v) = BytesAt(m, _get_non_small_ptr(v), PREFIX_SIZE)

\* C20: every live value of more than 12 bytes whose payload exists, of any
\* class and however it was produced (byte constructor, move construction,
\* move assignment, copy_to_temporary, substr), has a prefix field equal to
\* the first 4 bytes of the payload its address refers to; so has every
\* value of more than 12 bytes that _substr builds from such a value.
C20_PrefixMirrorsPayload ==
    \A s \in alive :
        (~_is_small(obj[s]) /\ ~Dangling(mem, obj[s])) =>
            /\ PrefixMatches(mem, obj[s])
            /\ \A start \in SubStarts, length \in SubLens, cls \in Classes,
                  blk \in AllocChoices(mem) :
                    LET r == _substr(mem, obj[s], start, length, cls, blk)
                    IN  (r.thrown = "no" /\ ~ReadsOutside(obj[s], start, length)
                            /\ ~_is_small(r.val)) => PrefixMatches(r.mem, r.val)

\* a temporary value of more than 12 bytes made by copy_to_temporary from a
\* transient one is alive, and _substr builds a view of 13 bytes of it that
\* starts at its second byte
C20_Witness ==
    /\ last.op = "copy_to_temporary" /\ last.thrown = "no" /\ last.cls = transient
    /\ last.dst \in alive /\ ~_is_small(obj[last.dst])
    /\ _get_prefix(obj[last.dst]) = SubSeq(Hello, 1, PREFIX_SIZE)
    /\ _substr(mem, obj[last.dst], U32(1), U32(SMALL_STRING_SIZE + 1),
               transient, NoBlock).val.pre = SubSeq(Hello, 2, 1 + PREFIX_SIZE)

\* v is in small mode and its inline bytes from position size on are zero
ZeroPadded(v) ==
    /\ v.st1.k = "raw"
    /\ \A i \in 1..SMALL_STRING_SIZE : i > _get_size(v)[2] => RecordBytes(v)[i] = 0

\* C21: every value of at most 12 bytes, made by the default constructor, by
\* the byte constructor, by substr (the value _substr builds and the object
\* substr returns) or left behind by move assignment, has zero in all inline
\* bytes from position size on; so two such values with the same size and
\* bytes have identical records.
C21_SmallValuesAreZeroPadded ==
    /\ \A s \in alive :
          /\ _is_small(obj[s]) => ZeroPadded(obj[s])
          /\ ~Dangling(mem, obj[s]) =>
                \A start \in SubStarts, length \in SubLens, cls \in Classes :
                    LET r == _substr(mem, obj[s], start, length, cls, NoBlock)
                    IN  (r.thrown = "no" /\ ~ReadsOutside(obj[s], start, length)
                            /\ _is_small(r.val)) => ZeroPadded(r.val)
    /\ \A s \in alive, t \in alive :
          (_is_small(obj[s]) /\ _is_small(obj[t]) /\ _get_size(obj[s]) = _get_size(obj[t])
                /\ Content(mem, obj[s]) = Content(mem, obj[t])) => obj[s] = obj[t]

\* move assignment left an empty source behind and gave dst a 5-byte value,
\* of which _substr builds a 4-byte value from its second byte on
C21_Witness ==
    /\ last.op = "move_assign" /\ last.dst # last.src
    /\ last.src \in alive /\ obj[last.src] = EmptyImpl
    /\ _get_size(obj[last.dst]) = U32(5)
    /\ Content(mem, _substr(mem, obj[last.dst], U32(1), U32(PREFIX_SIZE), persistent,
                            NoBlock).val) = SubSeq(Hello, 2, 5)

\* C22: the allocator is carried with the value.  Every live owner of a
\* payload holds the allocator instance that allocated the payload, also
\* after move construction and after move assignment into an object built
\* with another instance; every deallocate call goes through the instance
\* that allocated the block; copy_to_temporary and substr allocate through
\* the instance of their source.
C22_AllocatorTravelsWithValue ==
    /\ \A s \in alive :
          (IsOwner(obj[s]) /\ ~Dangling(mem, obj[s])) => obj[s].al = BlockOrigin(mem, obj[s])
    /\ last.frees # <<>> => (last.freedVia = last.freedFrom /\ last.freedVia \in Allocs)
    /\ (last.op \in {"substr", "copy_to_temporary"} /\ last.allocs # <<>>) =>
            last.via = obj[last.src].al

\* move assignment deallocated the old payload of dst through one instance
\* and left dst the owner of a payload of the other instance
C22_Witness ==
    /\ last.op = "move_assign" /\ last.frees # <<>>
    /\ IsOwner(obj[last.dst]) /\ obj[last.dst].al # last.freedVia
    /\ obj[last.dst].al = BlockOrigin(mem, obj[last.dst])

\* memory in which every buffer holds other bytes than it does: no explicit
\* bytes, and a fill byte that depends on the buffer and on k
Scrambled(m, k) ==
    [x \in DOMAIN m |-> [len |-> m[x].len, head |-> <<>>, fill |-> ((k * x) % 251) + 1,
                         live |-> m[x].live]]

\* the cached prefixes of a and b differ within the bytes both values have,
\* or the shorter of a and b has no byte beyond the prefix
DecidedByPrefix(a, b) ==
    \/ Le(MinU(_get_size(a), _get_size(b)), U32(PREFIX_SIZE))
    \/ \E i \in 1..PREFIX_SIZE : _get_prefix(a)[i] # _get_prefix(b)[i]

\* C23: when the cached prefixes differ within the first min(a.size, b.size,
\* 4) bytes, or the shorter size is at most 4, a.compare(b) is decided by
\* the prefix fields and the sizes alone: it is the same whatever bytes are
\* behind the stored addresses.  So the payload is read only when both
\* sizes exceed 4 and the prefixes are equal.
C23_CompareStopsAtPrefix ==
    (last.op = "compare" /\ DecidedByPrefix(obj[1], obj[2])) =>
        /\ _compare(Scrambled(mem, 1), obj[1], obj[2]) = last.res
        /\ _compare(Scrambled(mem, 7), obj[1], obj[2]) = last.res

\* two values of more than 12 bytes are told apart by their prefixes
C23_Witness ==
    /\ last.op = "compare" /\ last.res # 0
    /\ ~_is_small(obj[1]) /\ ~_is_small(obj[2])
    /\ _get_prefix(obj[1]) # _get_prefix(obj[2])
    /\ _get_non_small_ptr(obj[1]) # _get_non_small_ptr(obj[2])

\* what a step that is a move assignment does
MoveAssignEffect ==
    last'.op = "move_assign" =>
        IF last'.dst # last'.src
        THEN /\ last'.frees = IF IsOwner(obj[last'.dst])
                              THEN <<[ptr |-> _get_non_small_ptr(obj[last'.dst]),
                                      n |-> _get_size(obj[last'.dst])]>>
                              ELSE <<>>
             /\ IsOwner(obj[last'.dst]) =>
                    /\ mem[_get_non_small_ptr(obj[last'.dst]).buf].live
                    /\ ~mem'[_get_non_small_ptr(obj[last'.dst]).buf].live
             /\ ~ub'
             /\ \A x \in Heap : x \notin {f.ptr.buf : f \in {last'.frees[i] : i \in 1..Len(last'.frees)}}
                    => mem'[x] = mem[x]
             /\ obj'[last'.dst] = obj[last'.src]
             /\ _get_class(obj'[last'.dst]) = _get_class(obj[last'.src])
             /\ obj'[last'.src] = EmptyImpl
             /\ _get_size(obj'[last'.src]) = U32(0)
             /\ _get_class(obj'[last'.src]) = persistent
             /\ alive' = alive
        ELSE /\ last'.frees = <<>>
             /\ UNCHANGED <<mem, obj, alive, ub>>

\* C24: move assignment dst = std::move(src), dst and src distinct,
\* deallocates the previous payload of dst exactly once if and only if dst
\* was a temporary value of more than 12 bytes, gives dst the record and the
\* class src had, and leaves src the empty value (size 0, class persistent);
\* self move assignment deallocates nothing and changes nothing.
C24_MoveAssignReleasesAndEmpties == [][MoveAssignEffect]_vars

\* a move assignment released the payload of dst, made dst the owner of the
\* payload of src and left src empty
C24_Witness ==
    /\ last.op = "move_assign" /\ last.dst # last.src /\ Len(last.frees) = 1
    /\ IsOwner(obj[last.dst]) /\ obj[last.src] = EmptyImpl /\ ~ub

\* C25 (as claimed): compare is antisymmetric and consistent with equality
\* over the full range of 32-bit sizes: the sign of a.compare(b) is the
\* opposite of the sign of b.compare(a), and a.compare(b) is 0 exactly when
\* a == b.
C25_CompareAntisymmetric ==
    last.op = "compare" =>
        /\ Sign(last.res) = 0 - Sign(_compare(mem, obj[2], obj[1]))
        /\ (last.res = 0) <=> _equals(mem, obj[1], obj[2])

(***************************************************************************)
(* The key/value store of src/lsm_tree/main.cpp: MemTable, SSTable and     *)
(* LSMTree over a string type chosen on the command line.  In the          *)
(* specifications of this section                                          *)
(*   mem   is the data directory: the files by name and their bytes, the   *)
(*         number of files found when the tree was opened and the number   *)
(*         of file mappings made so far;                                   *)
(*   obj   is the LSMTree (or, in SpecMem, one MemTable);                  *)
(*   alive is the set of file mappings that are still mapped;              *)
(*   last  is the last call, its result, and what this instance wrote;     *)
(*   ub    is set once unmapped memory was read or a block freed twice.    *)
(* A string is its bytes; a stored value also carries its german_string    *)
(* class and the mapping its bytes live in.  Keys are at most 12 bytes, so *)
(* a german_string key holds its bytes inline.  A size_t n modulo 2^64 is  *)
(* written as its representative of least magnitude: a negative n stands   *)
(* for 2^64 + n.                                                           *)
(***************************************************************************)

\* template_main<std::string> or template_main<gs::german_string>
StringTypes == {"std", "gs"}

\* mapped_file_ == nullptr, and the mapping of a value that points into none
NoMapping == 0

\* the keys the callers look up, the keys they write, and the value bytes
\* they pass
LsmKeys == {<<97>>, <<98>>}
PutKeys == {<<97>>}
LsmValues == {<<>>, Hello}

\* std::optional without a value
NullOpt == [has_value |-> FALSE]

\* std::optional holding v
Some(v) == [has_value |-> TRUE, value |-> v]

\* a std::string holding bs: it owns a copy of its bytes
StdString(bs) == [bytes |-> bs, cls |-> temporary, map |-> NoMapping]

\* german_string(ptr, size, cls) for bytes at ptr inside mapping m (NoMapping
\* for bytes of the caller): up to 12 bytes are copied inline and the class
\* reads persistent; a temporary copies the bytes into its own block; a
\* persistent or transient keeps the pointer
GsString(bs, cls, m) ==
    IF Len(bs) <= SMALL_STRING_SIZE
    THEN [bytes |-> bs, cls |-> persistent, map |-> NoMapping]
    ELSE [bytes |-> bs, cls |-> cls, map |-> IF cls = temporary THEN NoMapping ELSE m]

\* StringType(key), StringType(value) made from the caller's std::string
UserString(type, bs) == IF type = "gs" THEN GsString(bs, temporary, NoMapping) ELSE StdString(bs)

\* the value owns a heap block
OwnsBlock(type, v) == type = "gs" /\ v.cls = temporary /\ Len(v.bytes) > SMALL_STRING_SIZE

\* the value points into a file mapping
PointsIntoMapping(v) == v.map # NoMapping

\* value.size() after std::move(value) was passed on: a std::string is left
\* empty; a german_string keeps its size when it was move-constructed from
\* (try_emplace inserted) and is zeroed when it was move-assigned from
MovedFromSize(type, inserted, n) == IF type = "gs" /\ inserted THEN n ELSE 0

\* operator< of the string type on short strings: byte-wise lexicographic
RECURSIVE BytesLess(_, _)
BytesLess(a, b) ==
    IF Len(b) = 0 THEN FALSE
    ELSE IF Len(a) = 0 THEN TRUE
    ELSE IF a[1] # b[1] THEN a[1] < b[1]
    ELSE BytesLess(Tail(a), Tail(b))

\* the elements of S in the order a std::map or std::sort puts them
RECURSIVE Ascending(_)
Ascending(S) ==
    IF S = {} THEN <<>>
    ELSE LET k == CHOOSE x \in S : \A y \in S : x = y \/ BytesLess(x, y)
         IN  <<k>> \o Ascending(S \ {k})

\* std::map<StringType, StringType>: no entries
EmptyMap == [k \in {} |-> NullOpt]

\* map[key] = value
MapPut(m, key, value) == [k \in DOMAIN m \cup {key} |-> IF k = key THEN value ELSE m[k]]

\* for (const auto &[key, value] : from) into[key] = value
MapMerge(into, from) == [k \in DOMAIN into \cup DOMAIN from |-> IF k \in DOMAIN from THEN from[k] ELSE into[k]]

\* explicit MemTable(size_t threshold = 1024 * 1024)
size_threshold_ == 1048576

\* a new MemTable
EmptyMemTable == [data_ |-> EmptyMap, current_size_ |-> 0]

\* MemTable::put(StringType &&key, StringType &&value)
MemTablePut(type, mt, key, value) ==
    LET old_size == IF key \in DOMAIN mt.data_ THEN Len(mt.data_[key].bytes) ELSE 0
        inserted == key \notin DOMAIN mt.data_
    IN  [data_ |-> MapPut(mt.data_, key, value),
         current_size_ |-> mt.current_size_ - old_size + Len(key)
                             + MovedFromSize(type, inserted, Len(value.bytes))]

\* german_string::as_transient(): the same bytes, not owned
as_transient(v) == IF v.cls = temporary THEN [v EXCEPT !.cls = transient] ELSE v

\* MemTable::get(key)
MemTableGet(type, mt, key) ==
    IF key \in DOMAIN mt.data_
    THEN Some(IF type = "gs" THEN as_transient(mt.data_[key]) ELSE mt.data_[key])
    ELSE NullOpt

\* MemTable::is_full()
is_full(mt) == mt.current_size_ < 0 \/ mt.current_size_ >= size_threshold_

\* MemTable::empty()
MemTableEmpty(mt) == mt.data_ = EmptyMap

\* MemTable::clear()
MemTableClear(mt) == EmptyMemTable

\* the four bytes of a uint32_t in memory
U32LE(n) == <<n % 256, (n \div 256) % 256, (n \div B16) % 256, (n \div (256 * B16)) % 256>>

\* std::memcpy(&len, ptr, sizeof(uint32_t)) at index at of bs
ReadU32LE(bs, at) == bs[at] + 256 * bs[at + 1] + B16 * bs[at + 2] + 256 * B16 * bs[at + 3]

\* the records of MappedFile::write_key_value_data for the keys in turn
RECURSIVE WriteRecords(_, _)
WriteRecords(data, keys) ==
    IF keys = <<>> THEN <<>>
    ELSE LET key == Head(keys)
             value == data[key].bytes
         IN  U32LE(Len(key)) \o U32LE(Len(value)) \o key \o value
                 \o WriteRecords(data, Tail(keys))

\* MappedFile::write_key_value_data: the bytes of the file written for data
write_key_value_data(data) == WriteRecords(data, Ascending(DOMAIN data))

\* write_key_value_data reads value.data() of every entry: one of them
\* points into a mapping that is gone
ReadsUnmapped(data, live) ==
    \E k \in DOMAIN data : PointsIntoMapping(data[k]) /\ data[k].map \notin live

\* StringType(ptr, len) or StringType(ptr, len, transient) for bytes of mapping m
ParsedString(type, bs, m) == IF type = "gs" THEN GsString(bs, transient, m) ELSE StdString(bs)

\* the loop of SSTable::parse_data_from_span, ptr at index at of the span bs
RECURSIVE ParseFrom(_, _, _, _, _)
ParseFrom(type, bs, at, cache, m) ==
    IF at - 1 + 8 > Len(bs) THEN cache
    ELSE LET key_len == ReadU32LE(bs, at)
             value_len == ReadU32LE(bs, at + 4)
             ptr == at + 8
         IN  IF ptr - 1 + key_len + value_len > Len(bs) THEN cache
             ELSE LET key == SubSeq(bs, ptr, ptr + key_len - 1)
                      value == SubSeq(bs, ptr + key_len, ptr + key_len + value_len - 1)
                  IN  ParseFrom(type, bs, ptr + key_len + value_len,
                                MapPut(cache, key, ParsedString(type, value, m)), m)

\* SSTable::parse_data_from_span(data_span) into data_cache_
parse_data_from_span(type, bs, cache, m) == ParseFrom(type, bs, 1, cache, m)

\* std::to_string(id)
RECURSIVE Digits(_)
Digits(n) == IF n < 10 THEN <<48 + n>> ELSE Digits(n \div 10) \o <<48 + (n % 10)>>

\* "sstable_" + std::to_string(id) + ".dat"
SSTableName(id) ==
    <<115, 115, 116, 97, 98, 108, 101, 95>> \o Digits(id) \o <<46, 100, 97, 116>>

\* "compacted_" + std::to_string(id) + ".dat"
CompactedName(id) ==
    <<99, 111, 109, 112, 97, 99, 116, 101, 100, 95>> \o Digits(id) \o <<46, 100, 97, 116>>

\* filename.find(c, from): the index of the first c at or after from, 0 for npos
RECURSIVE Find(_, _, _)
Find(bs, c, from) ==
    IF from > Len(bs) THEN 0
    ELSE IF bs[from] = c THEN from
    ELSE Find(bs, c, from + 1)

\* std::stoi of decimal digits
RECURSIVE StoI(_)
StoI(ds) == IF ds = <<>> THEN 0 ELSE 10 * StoI(SubSeq(ds, 1, Len(ds) - 1)) + (ds[Len(ds)] - 48)

\* the id load_existing_sstables reads out of a file name
FileId(name) ==
    LET underscore == Find(name, 95, 1)
        dot == Find(name, 46, underscore)
    IN  StoI(SubSeq(name, underscore + 1, dot - 1))

\* SSTable(filename, level)
NewSSTable(filename, level) ==
    [filename_ |-> filename, data_cache_ |-> EmptyMap, cache_loaded_ |-> FALSE,
     mapped_file_ |-> NoMapping, level_ |-> level]

\* SSTable::load_cache() of t with the directory files, the live mappings and
\* the number of mappings made so far
load_cache(type, t, files, live, maps) ==
    IF t.cache_loaded_
    THEN [sstable |-> t, alive |-> live, maps |-> maps]
    ELSE IF t.filename_ \notin DOMAIN files
    THEN [sstable |-> [t EXCEPT !.mapped_file_ = NoMapping, !.cache_loaded_ = TRUE],
          alive |-> live, maps |-> maps]
    ELSE IF files[t.filename_] = <<>>
    THEN [sstable |-> [t EXCEPT !.mapped_file_ = maps + 1, !.cache_loaded_ = TRUE],
          alive |-> live, maps |-> maps + 1]
    ELSE [sstable |-> [t EXCEPT !.mapped_file_ = maps + 1, !.cache_loaded_ = TRUE,
                                !.data_cache_ = parse_data_from_span(type, files[t.filename_],
                                                                     t.data_cache_, maps + 1)],
          alive |-> live \cup {maps + 1}, maps |-> maps + 1]

\* SSTable::create_from_memtable(data, filename, level): the new SSTable
create_from_memtable(data, filename, level) ==
    [filename_ |-> filename, data_cache_ |-> data, cache_loaded_ |-> TRUE,
     mapped_file_ |-> NoMapping, level_ |-> level]

\* SSTable::get(key) on a loaded table
SSTableGet(t, key) == IF key \in DOMAIN t.data_cache_ THEN Some(t.data_cache_[key]) ELSE NullOpt

\* the loop of LSMTree::get over sstables_ from index i down
RECURSIVE SearchNewestFirst(_, _, _)
SearchNewestFirst(tables, i, key) ==
    IF i = 0 THEN NullOpt
    ELSE IF SSTableGet(tables[i], key).has_value THEN SSTableGet(tables[i], key)
    ELSE SearchNewestFirst(tables, i - 1, key)

\* mutant of get: the SSTables are searched oldest first
RECURSIVE SearchOldestFirst(_, _, _)
SearchOldestFirst(tables, i, key) ==
    IF i > Len(tables) THEN NullOpt
    ELSE IF SSTableGet(tables[i], key).has_value THEN SSTableGet(tables[i], key)
    ELSE SearchOldestFirst(tables, i + 1, key)

\* mutant of get: the SSTables are searched oldest first
GetOldestFirst(tree, key) ==
    LET result == MemTableGet(tree.StringType, tree.memtable_, key)
    IN  IF result.has_value THEN result
        ELSE SearchOldestFirst(tree.sstables_, 1, key)

\* LSMTree::get(key)
get(tree, key) ==
    LET result == MemTableGet(tree.StringType, tree.memtable_, key)
    IN  IF result.has_value THEN result
        ELSE SearchNewestFirst(tree.sstables_, Len(tree.sstables_), key)

\* LSMTree::should_compact()
should_compact(tree) == Len(tree.sstables_) > 4

\* the merge loop of LSMTree::compact over the tables from index i on
RECURSIVE MergeTables(_, _, _)
MergeTables(tables, i, merged) ==
    IF i > Len(tables) THEN merged
    ELSE MergeTables(tables, i + 1, MapMerge(merged, tables[i].data_cache_))

\* the directory without the files named in names
RemoveFiles(files, names) == [f \in DOMAIN files \ names |-> files[f]]

\* LSMTree::compact() in the world w = [tree, files, alive, maps, ub]: the
\* merged values are copied by german_string's defaulted copy assignment, so
\* a block owned by a value of an old table is freed by merged_data and by
\* the old table
compact(w) ==
    IF Len(w.tree.sstables_) < 2 THEN w
    ELSE LET tables == w.tree.sstables_
             merged_data == MergeTables(tables, 1, EmptyMap)
             filename == CompactedName(w.tree.next_sstable_id_)
             compacted_sstable == create_from_memtable(merged_data, filename, 1)
             old == {tables[i].filename_ : i \in 1..Len(tables)}
             unmapped == {tables[i].mapped_file_ : i \in 1..Len(tables)}
         IN  IF ReadsUnmapped(merged_data, w.alive)
             THEN [w EXCEPT !.ub = TRUE]
             ELSE [tree |-> [w.tree EXCEPT !.sstables_ = <<compacted_sstable>>,
                                           !.next_sstable_id_ = @ + 1],
                   files |-> RemoveFiles(MapPut(w.files, filename,
                                                write_key_value_data(merged_data)), old),
                   alive |-> w.alive \ unmapped,
                   maps |-> w.maps,
                   ub |-> \E k \in DOMAIN merged_data :
                              OwnsBlock(w.tree.StringType, merged_data[k])]

\* LSMTree::flush_memtable() in the world w
flush_memtable(w) ==
    IF MemTableEmpty(w.tree.memtable_) THEN w
    ELSE LET data == w.tree.memtable_.data_
             filename == SSTableName(w.tree.next_sstable_id_)
             sstable == create_from_memtable(data, filename, 0)
             flushed == [w EXCEPT !.tree.sstables_ = Append(@, sstable),
                                  !.tree.memtable_ = MemTableClear(@),
                                  !.tree.next_sstable_id_ = @ + 1,
                                  !.files = MapPut(@, filename, write_key_value_data(data))]
         IN  IF should_compact(flushed.tree) THEN compact(flushed) ELSE flushed

\* LSMTree::put(key, value) in the world w
put(w, key, value) ==
    LET stored == [w EXCEPT !.tree.memtable_ =
                       MemTablePut(w.tree.StringType, @, key, value)]
    IN  IF is_full(stored.tree.memtable_) THEN flush_memtable(stored) ELSE stored

\* LSMTree::delete_key(key) in the world w
delete_key(w, key) == put(w, key, UserString(w.tree.StringType, <<>>))

\* the loop of LSMTree::load_existing_sstables over the sorted file names
RECURSIVE LoadFiles(_, _)
LoadFiles(w, names) ==
    IF names = <<>> THEN w
    ELSE LET r == load_cache(w.tree.StringType, NewSSTable(Head(names), 0),
                             w.files, w.alive, w.maps)
         IN  LoadFiles([w EXCEPT !.tree.sstables_ = Append(@, r.sstable),
                                 !.tree.next_sstable_id_ = Max2(@, FileId(Head(names)) + 1),
                                 !.alive = r.alive,
                                 !.maps = r.maps],
                       Tail(names))

\* LSMTree::load_existing_sstables()
load_existing_sstables(w) == LoadFiles(w, Ascending(DOMAIN w.files))

\* LSMTree(base_dir) for the string type on a directory holding files
NewLSMTree(type, files) ==
    load_existing_sstables(
        [tree |-> [StringType |-> type, memtable_ |-> EmptyMemTable,
                   sstables_ |-> <<>>, next_sstable_id_ |-> 0],
         files |-> files, alive |-> {}, maps |-> 0, ub |-> FALSE])

\* the largest number of SSTable files a directory holds when it is opened
MaxFiles == 5

\* the largest number of files one LSMTree instance creates
MaxNewFiles == 3

\* the largest magnitude of current_size_ the calls are followed to
MaxDrift == 14

\* what an earlier run left in file number i of the directory
ExistingData(i) ==
    IF i % 2 = 0
    THEN MapPut(EmptyMap, <<97>>, StdString(Hello))
    ELSE MapPut(MapPut(EmptyMap, <<97>>, StdString(<<120>>)), <<98>>, StdString(Hello))

\* a directory holding the files sstable_0.dat .. sstable_(n-1).dat
RECURSIVE ExistingFiles(_)
ExistingFiles(n) ==
    IF n = 0 THEN EmptyMap
    ELSE MapPut(ExistingFiles(n - 1), SSTableName(n - 1),
                write_key_value_data(ExistingData(n - 1)))

\* what this instance wrote for a key: nothing, a value, or a deletion
NotWritten == [kind |-> "none", bytes |-> <<>>]
WrittenValue(bs) == [kind |-> "put", bytes |-> bs]
WrittenDeleted == [kind |-> "deleted", bytes |-> <<>>]

\* no call yet
NoCall == [op |-> "open", key |-> <<>>, res |-> NullOpt,
           written |-> [k \in LsmKeys |-> NotWritten]]

\* the program's state as one record
World == [tree |-> obj, files |-> mem.files, alive |-> alive, maps |-> mem.maps, ub |-> ub]

\* the state after a call that led to the world w
Becomes(w) ==
    /\ obj' = w.tree
    /\ mem' = [mem EXCEPT !.files = w.files, !.maps = w.maps]
    /\ alive' = w.alive
    /\ ub' = w.ub

\* the calls are followed while the instance created at most MaxNewFiles
\* files and current_size_ is at most MaxDrift away from 0
Followed(w) ==
    /\ w.tree.next_sstable_id_ <= mem.opened + MaxNewFiles
    /\ w.tree.memtable_.current_size_ \in (0 - MaxDrift)..MaxDrift

\* LSMTree<StringType> lsm(lsm_dir) on a directory an earlier run left
InitLsm ==
    \E type \in StringTypes, n \in 0..MaxFiles :
        LET w == NewLSMTree(type, ExistingFiles(n))
        IN  /\ obj = w.tree
            /\ mem = [files |-> w.files, opened |-> n, maps |-> w.maps]
            /\ alive = w.alive
            /\ ub = w.ub
            /\ last = NoCall

\* lsm.put(key, value)
Put(key, bs) ==
    /\ ~ub
    /\ LET w == put(World, key, UserString(obj.StringType, bs))
       IN  /\ Followed(w)
           /\ Becomes(w)
           /\ last' = [op |-> "put", key |-> key, res |-> NullOpt,
                       written |-> [last.written EXCEPT ![key] = WrittenValue(bs)]]

\* lsm.get(key)
Get(key) ==
    /\ ~ub
    /\ last' = [op |-> "get", key |-> key, res |-> get(obj, key), written |-> last.written]
    /\ UNCHANGED <<mem, obj, alive, ub>>

\* lsm.delete_key(key)
DeleteKey(key) ==
    /\ ~ub
    /\ LET w == delete_key(World, key)
       IN  /\ Followed(w)
           /\ Becomes(w)
           /\ last' = [op |-> "delete_key", key |-> key, res |-> NullOpt,
                       written |-> [last.written EXCEPT ![key] = WrittenDeleted]]

\* lsm.flush_memtable()
FlushMemtable ==
    /\ ~ub
    /\ LET w == flush_memtable(World)
       IN  /\ Followed(w)
           /\ Becomes(w)
           /\ last' = [op |-> "flush_memtable", key |-> <<>>, res |-> NullOpt,
                       written |-> last.written]

\* lsm.compact()
Compact ==
    /\ ~ub
    /\ LET w == compact(World)
       IN  /\ Followed(w)
           /\ Becomes(w)
           /\ last' = [op |-> "compact", key |-> <<>>, res |-> NullOpt,
                       written |-> last.written]

NextLsm ==
    \/ \E key \in PutKeys, bs \in LsmValues : Put(key, bs)
    \/ \E key \in LsmKeys : Get(key)
    \/ \E key \in PutKeys : DeleteKey(key)
    \/ FlushMemtable
    \/ Compact

SpecLsm == InitLsm /\ [][NextLsm]_vars

\* C26: read-your-writes within one LSMTree instance: get(k) returns the
\* value of the most recent put(k, v) of this instance, whatever flushes and
\* compactions happened in between.
C26_ReadYourWrites ==
    last.op = "get" /\ last.written[last.key].kind = "put" =>
        /\ last.res.has_value
        /\ last.res.value.bytes = last.written[last.key].bytes

\* a get answered from the SSTables after a compaction and a later flush,
\* while an older table holds another value for the key
C26_Witness ==
    /\ last.op = "get" /\ last.written[last.key].kind = "put" /\ ~ub
    /\ last.key \notin DOMAIN obj.memtable_.data_
    /\ Len(obj.sstables_) >= 2 /\ obj.sstables_[1].level_ = 1
    /\ \E i \in 1..Len(obj.sstables_) :
           /\ last.key \in DOMAIN obj.sstables_[i].data_cache_
           /\ obj.sstables_[i].data_cache_[last.key].bytes # last.res.value.bytes

\* C27 (as claimed): whenever put or flush_memtable returns, the tree holds
\* at most 4 SSTables, also when it was opened on a directory that already
\* held SSTable files.
C27_AtMostFourSSTables ==
    last.op \in {"put", "flush_memtable"} /\ ~ub => Len(obj.sstables_) <= 4

\* C28 (as claimed): after delete_key(k) and no later put(k, ...), get(k)
\* returns no value, before and after the tombstone was flushed or compacted.
C28_DeletedKeyIsAbsent ==
    last.op = "get" /\ last.written[last.key].kind = "deleted" => ~last.res.has_value

\* the largest number of mappings made after the tree was opened
MaxReloads == 1

\* sstables_[i]->release_mapping(): the mapping goes, the cache stays
ReleaseMapping(i) ==
    /\ ~ub /\ i \in 1..Len(obj.sstables_)
    /\ obj.sstables_[i].mapped_file_ # NoMapping
    /\ obj' = [obj EXCEPT !.sstables_[i].mapped_file_ = NoMapping]
    /\ alive' = alive \ {obj.sstables_[i].mapped_file_}
    /\ last' = [op |-> "release_mapping", key |-> <<>>, res |-> NullOpt,
                written |-> last.written]
    /\ UNCHANGED <<mem, ub>>

\* sstables_[i]->reload_from_disk()
ReloadFromDisk(i) ==
    /\ ~ub /\ i \in 1..Len(obj.sstables_)
    /\ LET t == obj.sstables_[i]
           cleared == [t EXCEPT !.cache_loaded_ = FALSE, !.data_cache_ = EmptyMap,
                                !.mapped_file_ = NoMapping]
           r == load_cache(obj.StringType, cleared, mem.files,
                           alive \ {t.mapped_file_}, mem.maps)
       IN  /\ r.maps <= mem.opened + MaxReloads
           /\ obj' = [obj EXCEPT !.sstables_[i] = r.sstable]
           /\ alive' = r.alive
           /\ mem' = [mem EXCEPT !.maps = r.maps]
    /\ last' = [op |-> "reload_from_disk", key |-> <<>>, res |-> NullOpt,
                written |-> last.written]
    /\ UNCHANGED ub

NextSst ==
    \/ \E key \in PutKeys, bs \in LsmValues : Put(key, bs)
    \/ \E key \in LsmKeys : Get(key)
    \/ FlushMemtable
    \/ Compact
    \/ \E i \in 1..Len(obj.sstables_) : ReleaseMapping(i)
    \/ \E i \in 1..Len(obj.sstables_) : ReloadFromDisk(i)

SpecSst == InitLsm /\ [][NextSst]_vars

\* the bytes a transient value points at are still mapped
StillMapped(v) == v.cls = transient /\ PointsIntoMapping(v) => v.map \in alive

\* C29 (as claimed): every transient value held in the data_cache_ of an
\* SSTable, returned by get, or carried into a compacted SSTable points into
\* a file mapping that is still mapped.
C29_TransientValuesStayMapped ==
    ~ub =>
        /\ \A i \in 1..Len(obj.sstables_) :
               \A k \in DOMAIN obj.sstables_[i].data_cache_ :
                   StillMapped(obj.sstables_[i].data_cache_[k])
        /\ last.op = "get" /\ last.res.has_value => StillMapped(last.res.value)

\* the largest magnitude of current_size_ a MemTable alone is followed to
MaxStored == 30

\* the value bytes passed to a MemTable alone
MemValues == {<<>>, <<120>>, Hello}

\* MemTable<StringType> memtable
InitMem ==
    /\ \E type \in StringTypes : obj = [StringType |-> type, memtable_ |-> EmptyMemTable]
    /\ mem = [files |-> EmptyMap, opened |-> 0, maps |-> 0]
    /\ alive = {}
    /\ ub = FALSE
    /\ last = NoCall

\* memtable.put(std::move(key), std::move(value))
MemPut(key, bs) ==
    /\ ~ub
    /\ LET mt == MemTablePut(obj.StringType, obj.memtable_, key,
                             UserString(obj.StringType, bs))
       IN  /\ mt.current_size_ \in (0 - MaxStored)..MaxStored
           /\ obj' = [obj EXCEPT !.memtable_ = mt]
    /\ last' = [NoCall EXCEPT !.op = "memtable_put", !.key = key]
    /\ UNCHANGED <<mem, alive, ub>>

\* memtable.clear()
MemClear ==
    /\ ~ub
    /\ obj' = [obj EXCEPT !.memtable_ = MemTableClear(@)]
    /\ last' = [NoCall EXCEPT !.op = "memtable_clear"]
    /\ UNCHANGED <<mem, alive, ub>>

NextMem ==
    \/ \E key \in LsmKeys, bs \in MemValues : MemPut(key, bs)
    \/ MemClear

SpecMem == InitMem /\ [][NextMem]_vars

\* the sum of key.size() + value.size() over the entries with keys in S
RECURSIVE BytesOf(_, _)
BytesOf(data, S) ==
    IF S = {} THEN 0
    ELSE LET k == CHOOSE x \in S : TRUE
         IN  Len(k) + Len(data[k].bytes) + BytesOf(data, S \ {k})

\* the bytes a MemTable stores
StoredBytes(mt) == BytesOf(mt.data_, DOMAIN mt.data_)

\* C30 (as claimed): after any sequence of MemTable::put and clear calls,
\* current_size_ is the sum of key.size() + value.size() over the stored
\* entries, it never underflows, and is_full() is true exactly when the
\* stored bytes reach size_threshold_.
C30_CurrentSizeIsStoredBytes ==
    /\ obj.memtable_.current_size_ = StoredBytes(obj.memtable_)
    /\ is_full(obj.memtable_) <=> StoredBytes(obj.memtable_) >= size_threshold_

====
